---- MODULE Spec2Model ----
(***************************************************************************)
(* Model of the Chakram X controller (src/src/chakram_controller.py), its  *)
(* configuration (src/src/config.py) and the key injection helpers         *)
(* (src/src/win_input.py).                                                 *)
(*                                                                         *)
(* Units.  Axis values are in 1/100 of the stick range, distances and      *)
(* deadzones in 1/1000, angles in whole degrees, time in steps of 50 ms    *)
(* (0.05 s = 1, 0.2 s = 4).  The class ChakramController defines update,   *)
(* press_key, release_key, release_all_keys and _is_angle_in_range twice;  *)
(* Python keeps the later definition, which is the one modelled here.      *)
(***************************************************************************)
EXTENDS Integers, Sequences, FiniteSets, TLC

VARIABLES
    \* ---- ChakramController fields (chakram_controller.py:55-137)
    current_sector,             \* sector name or "None"
    current_state,              \* "None", "neutral" or "attack"
    pressed_keys,               \* set of key names
    sector_change_in_progress,
    last_sector_change_time,
    last_position,
    last_position_time,
    last_update_time,
    in_deadzone,
    deadzone_entry_time,
    deadzone_speed,
    last_active_sector,
    alt_mode_active,
    alt_mode_key_pressed,
    alt_mode_current_sector,
    alt_mode_right_mouse_down,
    dynamic_deadzone_enabled,
    running,
    thread,                     \* the field self.thread: "None" or "Thread"
    \* ---- module-level configuration read by the controller (config.py:131-133)
    dyn_max_factor,             \* DYNAMIC_DEADZONE_MAX_FACTOR, in tenths
    \* ---- control positions
    thread_pc,                  \* the polling thread: "none", "loop", "body", "dead"
    stop_pc,                    \* a caller of stop(): "idle", "join" or "returned"
    \* ---- observation of the last operation
    op,                         \* name of the last operation
    emitted,                    \* key actions and sleeps it issued, in order
    outcome,                    \* how the last update() ended
    seq,                        \* the sector-change sequence it ran, if any
    pre,                        \* fields as they were when it began
    \* ---- the last direct call of a method, and its result
    fn_in,
    fn_out,
    \* ---- the input device
    joystick,                   \* the field self.joystick: "None" or "Joystick"
    \* ---- MovementAnalyzer (movement_analyzer.py:24-38)
    analyzer,                   \* its fields, as a record
    arrivals,                   \* every sample given to its update(), in order
    \* ---- GameStateDetector (game_state_detector.py:21-31)
    detector,                   \* its fields, as a record
    \* ---- MouseAxes (mouse_axes.py:112-135)
    mouse_axes,                 \* its fields, as a record
    axes_clock,                 \* time.perf_counter() * 1000
    axes_emitted,               \* what the last get_axes() issued, in order
    \* ---- AimEngine (aim/engine.py:26-34)
    aim_engine,                 \* its fields, as a record
    button_events,                    \* the pressed value of every on_button call, in order
    lmb_events,                 \* every synthetic event on_button returned, in order
    moves                       \* every scale_move call: its deltas, result and mode

vars == << current_sector, current_state, pressed_keys, sector_change_in_progress,
           last_sector_change_time, last_position, last_position_time,
           last_update_time, in_deadzone, deadzone_entry_time, deadzone_speed,
           last_active_sector, alt_mode_active, alt_mode_key_pressed,
           alt_mode_current_sector, alt_mode_right_mouse_down,
           dynamic_deadzone_enabled, running, thread, dyn_max_factor,
           thread_pc, stop_pc, op, emitted, outcome, seq, pre, fn_in, fn_out,
           joystick, analyzer, arrivals, detector, mouse_axes,
           axes_clock, axes_emitted, aim_engine, button_events, lmb_events,
           moves >>

\* the state outside the controller's own fields and the polling thread
others == << joystick, analyzer, arrivals, detector, mouse_axes, axes_clock, axes_emitted, aim_engine, button_events, lmb_events, moves >>

-----------------------------------------------------------------------------
\* Configuration (config.py)

DEADZONE == 150
DEADZONE_TIME_THRESHOLD == 1
DEADZONE_SPEED_THRESHOLD == 5
COMBAT_MODE_DEADZONE == 100
ADAPTIVE_ENABLED == TRUE
GAME_STATE_DETECTION_ENABLED == TRUE
sector_change_timeout == 4

None == "None"

\* DEFAULT_SECTORS, in the order the dict is iterated
SECTORS ==
    << [name |-> "overhead", start |-> 225, end |-> 315],
       [name |-> "right",    start |-> 315, end |-> 45],
       [name |-> "thrust",   start |-> 45,  end |-> 135],
       [name |-> "left",     start |-> 135, end |-> 225] >>

NamesOf(sectors) == { sectors[i].name : i \in 1..Len(sectors) }

SectorNames == NamesOf(SECTORS)

KEY_MAPPINGS ==
    [ overhead |-> "up", right |-> "right", thrust |-> "down", left |-> "left",
      cancel |-> "middle_mouse" ]

AttackKeys == { KEY_MAPPINGS[s] : s \in SectorNames }

\* the order in which release_all_keys walks the regular keys
KeyOrder == << "up", "right", "down", "left" >>

-----------------------------------------------------------------------------
\* Bounds of the model

MaxTime == 2
MaxTimeFault == 6

\* stick samples: the centre, two points between the deadzones the
\* configurations give (0.12 and 0.17 to the right), full deflection right and down
Centre == <<0, 0>>
Samples == { Centre, <<12, 0>>, <<17, 0>>, <<100, 0>>, <<0, 100>> }
SamplesFault == { Centre, <<12, 0>>, <<100, 0>>, <<0, 100>> }
SamplesStop == { Centre, <<100, 0>>, <<0, 100>> }

ReadError == << >>

-----------------------------------------------------------------------------
\* Geometry

Min(a, b) == IF a < b THEN a ELSE b

\* math.degrees(math.atan2(y, x)), plus 360 when negative; the samples lie on
\* the axes, where the value is exact
AngleOf(p) ==
    LET x == p[1]
        y == p[2]
        raw == CASE y = 0 /\ x >= 0 -> 0
                 [] x = 0 /\ y > 0  -> 90
                 [] y = 0 /\ x < 0  -> 180
                 [] x = 0 /\ y < 0  -> -90
    IN  IF raw < 0 THEN raw + 360 ELSE raw

RECURSIVE Root(_, _, _)
\* math.sqrt, rounded down: the largest r of lo..hi with r * r <= n
Root(n, lo, hi) ==
    IF lo = hi THEN lo
    ELSE IF ((lo + hi + 1) \div 2) * ((lo + hi + 1) \div 2) <= n
    THEN Root(n, (lo + hi + 1) \div 2, hi)
    ELSE Root(n, lo, (lo + hi + 1) \div 2 - 1)

\* min(1.0, sqrt(x*x + y*y)), in 1/1000 and rounded down to 1/100: every
\* deadzone it is compared with is a whole number of 1/100, so the rounding
\* changes no comparison
DistanceOf(p) == Min(1000, 10 * Root(p[1] * p[1] + p[2] * p[2], 0, 142))

\* mutation of _is_angle_in_range: the wrapping range tested with "and"
_is_angle_in_range_conj(angle, start, end) ==
    IF start > end
    THEN angle >= start /\ angle <= end
    ELSE start <= angle /\ angle <= end

_is_angle_in_range(angle, start, end) ==
    IF start > end
    THEN angle >= start \/ angle <= end
    ELSE start <= angle /\ angle <= end

\* Smoothness values in 1/1000, their factors in tenths (config.py:39-47)
TRANSITION_SMOOTHNESS == 100
COMBAT_MODE_TRANSITION_SMOOTHNESS == 50
TRANSITION_MIN_FACTOR == 5
TRANSITION_MAX_FACTOR == 20

\* mutation of SpeedFactor: the interpolation rises from min_factor to max_factor
SpeedFactor_rising(speed, min_factor, max_factor) ==
    IF speed < 50 THEN 150 * max_factor
    ELSE IF speed > 200 THEN 150 * min_factor
    ELSE 150 * min_factor + (speed - 50) * (max_factor - min_factor)

\* The factor MovementAnalyzer.get_dynamic_deadzone and
\* MovementAnalyzer.get_transition_smoothness compute from current_speed:
\* max_factor below 0.5, min_factor above 2.0, and between them
\* max_factor - (speed - 0.5) / 1.5 * (max_factor - min_factor).  Speed is in
\* 1/100 and the factors in tenths; the value is the factor times 150, which
\* is a whole number.
SpeedFactor(speed, min_factor, max_factor) ==
    IF speed < 50 THEN 150 * max_factor
    ELSE IF speed > 200 THEN 150 * min_factor
    ELSE 150 * max_factor - (speed - 50) * (max_factor - min_factor)

\* MovementAnalyzer.get_dynamic_deadzone: base_deadzone * factor, in 1/1000
get_dynamic_deadzone(speed, base_deadzone, min_factor, max_factor) ==
    (base_deadzone * SpeedFactor(speed, min_factor, max_factor)) \div 1500

\* mutation of analyzer_get_transition_smoothness: the two factors change
\* places, so slow movement gets min_factor and fast movement max_factor
analyzer_get_transition_smoothness_swapped(speed, base_smoothness, min_factor, max_factor) ==
    (base_smoothness * SpeedFactor(speed, max_factor, min_factor)) \div 1500

\* MovementAnalyzer.get_transition_smoothness: base_smoothness * factor
analyzer_get_transition_smoothness(speed, base_smoothness, min_factor, max_factor) ==
    (base_smoothness * SpeedFactor(speed, min_factor, max_factor)) \div 1500

\* GameStateDetector.get_optimal_deadzone
get_optimal_deadzone(game_state, base_deadzone, combat_deadzone) ==
    IF game_state = "combat" THEN combat_deadzone ELSE base_deadzone

\* GameStateDetector.get_optimal_transition_smoothness
get_optimal_transition_smoothness(game_state, base_smoothness, combat_smoothness) ==
    IF game_state = "combat" THEN combat_smoothness ELSE base_smoothness

\* "base = <static>; if self.combat_mode_active: base = <combat value>"
CombatBase(combat, static_value, combat_value) ==
    IF combat THEN combat_value ELSE static_value

\* mutation of get_effective_deadzone_with: the adaptive flag is not looked at
get_effective_deadzone_with_unguarded(adaptive, dynamic, combat, game_state, speed, min_factor, max_factor) ==
    IF ~dynamic THEN DEADZONE
    ELSE get_dynamic_deadzone(
             speed,
             IF GAME_STATE_DETECTION_ENABLED
             THEN get_optimal_deadzone(game_state,
                                       CombatBase(combat, DEADZONE, COMBAT_MODE_DEADZONE),
                                       COMBAT_MODE_DEADZONE)
             ELSE CombatBase(combat, DEADZONE, COMBAT_MODE_DEADZONE),
             min_factor, max_factor)

\* ChakramController.get_effective_deadzone, as a function of the fields and
\* the configuration it reads: adaptive_enabled, dynamic_deadzone_enabled,
\* combat_mode_active, the detector's current_state, the analyzer's
\* current_speed, DYNAMIC_DEADZONE_MIN_FACTOR and DYNAMIC_DEADZONE_MAX_FACTOR
get_effective_deadzone_with(adaptive, dynamic, combat, game_state, speed, min_factor, max_factor) ==
    IF ~adaptive \/ ~dynamic THEN DEADZONE
    ELSE get_dynamic_deadzone(
             speed,
             IF GAME_STATE_DETECTION_ENABLED
             THEN get_optimal_deadzone(game_state,
                                       CombatBase(combat, DEADZONE, COMBAT_MODE_DEADZONE),
                                       COMBAT_MODE_DEADZONE)
             ELSE CombatBase(combat, DEADZONE, COMBAT_MODE_DEADZONE),
             min_factor, max_factor)

\* ChakramController.get_transition_smoothness, in the same way
get_transition_smoothness(adaptive, combat, game_state, speed) ==
    IF ~adaptive THEN TRANSITION_SMOOTHNESS
    ELSE analyzer_get_transition_smoothness(
             speed,
             IF GAME_STATE_DETECTION_ENABLED
             THEN get_optimal_transition_smoothness(
                      game_state,
                      CombatBase(combat, TRANSITION_SMOOTHNESS,
                                 COMBAT_MODE_TRANSITION_SMOOTHNESS),
                      COMBAT_MODE_TRANSITION_SMOOTHNESS)
             ELSE CombatBase(combat, TRANSITION_SMOOTHNESS,
                             COMBAT_MODE_TRANSITION_SMOOTHNESS),
             TRANSITION_MIN_FACTOR, TRANSITION_MAX_FACTOR)

\* The live update() never feeds the analyzer nor the detector, and nothing
\* toggles combat mode: they keep the values their constructors gave them.
analyzer_current_speed == 0
detector_current_state == "exploration"
combat_mode_active == TRUE
DYNAMIC_DEADZONE_MIN_FACTOR == 15

\* get_effective_deadzone as the polling thread's controller evaluates it
get_effective_deadzone(adaptive, dynamic, max_factor) ==
    get_effective_deadzone_with(adaptive, dynamic, combat_mode_active,
                                detector_current_state, analyzer_current_speed,
                                DYNAMIC_DEADZONE_MIN_FACTOR, max_factor)

-----------------------------------------------------------------------------
\* MovementAnalyzer (movement_analyzer.py).  Positions in 1/100, timestamps in
\* steps of 50 ms, velocities and speeds in 1/100 per second, accelerations in
\* 1/100 per second squared, confidence in 1/1000.

\* history_size of the controller's analyzer
CONTROLLER_HISTORY_SIZE == 15

\* __init__
MovementAnalyzer(history_size) ==
    [ history_size |-> history_size,
      position_history |-> << >>,
      velocity_history |-> << >>,
      timestamp_history |-> << >>,
      current_velocity |-> <<0, 0>>,
      current_speed |-> 0,
      current_acceleration |-> <<0, 0>>,
      current_direction |-> 0,
      predicted_position |-> None,
      predicted_sector |-> None,
      prediction_confidence |-> 0 ]

\* deque.append on a deque built with maxlen: a full deque drops its oldest
\* element; a variant that drops the newest one instead
DequeAppend_newest(q, x, maxlen) == IF Len(q) < maxlen THEN Append(q, x) ELSE Append(SubSeq(q, 1, Len(q) - 1), x)

DequeAppend(q, x, maxlen) == IF Len(q) < maxlen THEN Append(q, x) ELSE Append(Tail(q), x)

\* q[-k] of Python
FromEnd(q, k) == q[Len(q) + 1 - k]

\* a difference divided by a time of dt steps of 50 ms
PerSecond(d, dt) == (20 * d) \div dt

Clamp(v) == IF v > 100 THEN 100 ELSE IF v < -100 THEN -100 ELSE v

\* lines 52-53
RecordSample(a, position, timestamp) == [a EXCEPT !.position_history = DequeAppend(@, position, a.history_size), !.timestamp_history = DequeAppend(@, timestamp, a.history_size)]

\* lines 63-80, for the velocity computed at line 66
SetVelocity(a, velocity) == [a EXCEPT !.velocity_history = DequeAppend(@, velocity, a.history_size), !.current_velocity = velocity, !.current_speed = Root(velocity[1] * velocity[1] + velocity[2] * velocity[2], 0, 4000), !.current_direction = AngleOf(velocity)]

\* lines 55-80
VelocityStage(a, position, timestamp) ==
    IF Len(a.position_history) >= 2 /\ timestamp - FromEnd(a.timestamp_history, 2) > 0
    THEN SetVelocity(a, << PerSecond(position[1] - FromEnd(a.position_history, 2)[1],
                                     timestamp - FromEnd(a.timestamp_history, 2)),
                           PerSecond(position[2] - FromEnd(a.position_history, 2)[2],
                                     timestamp - FromEnd(a.timestamp_history, 2)) >>)
    ELSE a

\* lines 82-93
AccelerationStage(a, timestamp) ==
    IF Len(a.velocity_history) >= 2 /\ timestamp - FromEnd(a.timestamp_history, 3) > 0
    THEN [a EXCEPT !.current_acceleration =
            << PerSecond(a.current_velocity[1] - FromEnd(a.velocity_history, 2)[1],
                         timestamp - FromEnd(a.timestamp_history, 3)),
               PerSecond(a.current_velocity[2] - FromEnd(a.velocity_history, 2)[2],
                         timestamp - FromEnd(a.timestamp_history, 3)) >>]
    ELSE a

\* lines 138-141, with the test of the speed dropped
Confidence_always(speed) == Min(1000, 5 * speed)

\* lines 138-141
Confidence(speed) == IF speed > 50 THEN Min(1000, 5 * speed) ELSE 0

\* lines 110-141, with prediction_time = 0.1
_predict_movement(a) ==
    IF Len(a.position_history) < 2 \/ Len(a.velocity_history) < 1
    THEN [a EXCEPT !.predicted_position = None, !.predicted_sector = None,
                   !.prediction_confidence = 0]
    ELSE [a EXCEPT !.predicted_position =
                      << Clamp(FromEnd(a.position_history, 1)[1]
                                 + a.current_velocity[1] \div 10),
                         Clamp(FromEnd(a.position_history, 1)[2]
                                 + a.current_velocity[2] \div 10) >>,
                   !.prediction_confidence = Confidence(a.current_speed)]

\* MovementAnalyzer.update
analyzer_update(a, position, timestamp) == _predict_movement(AccelerationStage(VelocityStage(RecordSample(a, position, timestamp), position, timestamp), timestamp))

-----------------------------------------------------------------------------
\* GameStateDetector (game_state_detector.py).  Times in seconds.

COMBAT_TIMEOUT == 5

\* __init__
GameStateDetector(combat_timeout) ==
    [ current_state |-> "exploration",
      last_combat_action_time |-> 0,
      combat_timeout |-> combat_timeout,
      combat_actions |-> {},
      combat_action_history |-> << >>,
      max_history_size |-> 20,
      combat_keys |-> << "up", "down", "left", "right", "middle_mouse" >> ]

\* the index of the first key of combat_keys found in pressed_keys, 0 when the
\* loop of lines 48-62 ends without finding one
FirstCombatKey(combat_keys, keys) ==
    IF \E i \in 1..Len(combat_keys) : combat_keys[i] \in keys
    THEN CHOOSE i \in 1..Len(combat_keys) :
            /\ combat_keys[i] \in keys
            /\ \A j \in 1..(i - 1) : combat_keys[j] \notin keys
    ELSE 0

\* lines 56-58
TrimHistory(history, max_history_size) == IF Len(history) > max_history_size THEN Tail(history) ELSE history

\* the body of the loop for the key found, lines 50-61
NoteCombatAction(d, key, current_time) == [d EXCEPT !.combat_actions = @ \cup {key}, !.combat_action_history = TrimHistory(Append(@, << key, current_time >>), d.max_history_size), !.last_combat_action_time = current_time]

\* lines 45-62
DetectStage(d, keys, current_time) ==
    IF FirstCombatKey(d.combat_keys, keys) = 0 THEN d
    ELSE NoteCombatAction(d, d.combat_keys[FirstCombatKey(d.combat_keys, keys)],
                          current_time)

\* the test of line 67, with the window closed at its end point
InCombat_inclusive(combat_action_detected, time_since_last_combat, combat_timeout) == combat_action_detected \/ time_since_last_combat <= combat_timeout

\* the test of line 67
InCombat(combat_action_detected, time_since_last_combat, combat_timeout) == combat_action_detected \/ time_since_last_combat < combat_timeout

\* lines 64-76
StateStage(d, combat_action_detected, current_time) ==
    IF InCombat(combat_action_detected, current_time - d.last_combat_action_time,
                d.combat_timeout)
    THEN [d EXCEPT !.current_state = "combat"]
    ELSE [d EXCEPT !.current_state = "exploration"]

\* GameStateDetector.update
detector_update(d, keys, current_time) == StateStage(DetectStage(d, keys, current_time), FirstCombatKey(d.combat_keys, keys) # 0, current_time)

-----------------------------------------------------------------------------
\* Sector classification

\* mutation of FirstSector: the last entry that contains the angle wins
FirstSector_last(sectors, angle, i) ==
    IF \E k \in i..Len(sectors) : _is_angle_in_range(angle, sectors[k].start, sectors[k].end)
    THEN sectors[CHOOSE k \in i..Len(sectors) :
                     /\ _is_angle_in_range(angle, sectors[k].start, sectors[k].end)
                     /\ \A m \in (k + 1)..Len(sectors) :
                           ~_is_angle_in_range(angle, sectors[m].start, sectors[m].end)].name
    ELSE None

RECURSIVE FirstSector(_, _, _)
\* the standard sector determination loop of get_current_sector, over the
\* entries of the module-level table SECTORS from the i-th on
FirstSector(sectors, angle, i) ==
    IF i > Len(sectors) THEN None
    ELSE LET r == sectors[i]
         IN  IF r.start > r.end
             THEN IF angle >= r.start \/ angle <= r.end
                  THEN r.name ELSE FirstSector(sectors, angle, i + 1)
             ELSE IF r.start <= angle /\ angle <= r.end
                  THEN r.name ELSE FirstSector(sectors, angle, i + 1)

\* mutation of get_current_sector: the deadzone test made inclusive
get_current_sector_inclusive(sectors, angle, distance, effective_deadzone) ==
    IF distance <= effective_deadzone THEN None
    ELSE FirstSector(sectors, angle, 1)

\* predicted_sector stays None in the live update(), so the prediction branch
\* of get_current_sector is never taken; sectors is the table SECTORS the
\* method reads
get_current_sector(sectors, angle, distance, effective_deadzone) ==
    IF distance < effective_deadzone THEN None
    ELSE FirstSector(sectors, angle, 1)

get_current_state(sector, distance) ==
    IF distance < DEADZONE THEN "neutral"
    ELSE IF sector = None THEN "neutral"
    ELSE "attack"

\* calculate_movement_speed, kept up to its order against
\* DEADZONE_SPEED_THRESHOLD, which is the only way update() reads it:
\* speed > 0.05  <=>  20 * d > 5 * dt  (d in 1/100, dt in 50 ms)
calculate_movement_speed(pos1, pos2, time1, time2) ==
    IF time2 = time1 THEN 0
    ELSE LET dx == pos2[1] - pos1[1]
             dy == pos2[2] - pos1[2]
             dt == time2 - time1
         IN  IF 16 * (dx * dx + dy * dy) > dt * dt
             THEN DEADZONE_SPEED_THRESHOLD + 1
             ELSE 0

-----------------------------------------------------------------------------
\* The controller object during one operation.  Besides the fields it carries
\* the operation's inputs (fails: the indices of the key injection calls that
\* report failure) and what the operation has issued so far.

NoSeq == [path |-> "none", from |-> None, to |-> None, held |-> FALSE,
          first |-> 0, last |-> 0, count |-> 0, overlap |-> FALSE]

Self ==
    [ current_sector |-> current_sector,
      current_state |-> current_state,
      pressed_keys |-> pressed_keys,
      sector_change_in_progress |-> sector_change_in_progress,
      last_sector_change_time |-> last_sector_change_time,
      last_position |-> last_position,
      last_position_time |-> last_position_time,
      last_update_time |-> last_update_time,
      in_deadzone |-> in_deadzone,
      deadzone_entry_time |-> deadzone_entry_time,
      deadzone_speed |-> deadzone_speed,
      last_active_sector |-> last_active_sector,
      alt_mode_active |-> alt_mode_active,
      alt_mode_key_pressed |-> alt_mode_key_pressed,
      alt_mode_current_sector |-> alt_mode_current_sector,
      alt_mode_right_mouse_down |-> alt_mode_right_mouse_down,
      fails |-> {},
      n |-> 0,
      emitted |-> << >>,
      outcome |-> "none",
      seq |-> NoSeq,
      exc |-> FALSE ]

Act(a, k, ok) == [act |-> a, key |-> k, ok |-> ok]

\* one call of key_down / key_up / middle_mouse_down / middle_mouse_up
\* (win_input.py:362-400, 511-549): it is issued, and reports success or not
OsCall(self, a, key) ==
    [self EXCEPT !.n = @ + 1,
                 !.emitted = Append(@, Act(a, key, (self.n + 1) \notin self.fails))]

LastOk(self) == self.emitted[Len(self.emitted)].ok

\* time.sleep(d) inside an operation
Sleep(self, d) == [self EXCEPT !.emitted = Append(@, Act("sleep", d, TRUE))]

\* right_mouse_down / right_mouse_up of the alternative mode; the result is ignored
RightMouse(self, a) == [self EXCEPT !.emitted = Append(@, Act(a, "right_mouse", TRUE))]

\* press_key: "if key_down(key): self.pressed_keys.add(key)"
AddIfOk(self, key) ==
    IF LastOk(self) THEN [self EXCEPT !.pressed_keys = @ \cup {key}] ELSE self

\* mutation of press_key: attack keys are pressed in the alternative mode too
press_key_any(self, key) ==
    IF key \notin self.pressed_keys
    THEN AddIfOk(OsCall(self, "press", key), key)
    ELSE self

press_key(self, key) ==
    IF self.alt_mode_active /\ key \in AttackKeys THEN self
    ELSE IF key \notin self.pressed_keys
    THEN AddIfOk(OsCall(self, "press", key), key)
    ELSE self

\* release_key: "if key_up(key): self.pressed_keys.remove(key)"
RemoveIfOk(self, key) ==
    IF LastOk(self) THEN [self EXCEPT !.pressed_keys = @ \ {key}] ELSE self

release_key(self, key) ==
    IF key \in self.pressed_keys
    THEN RemoveIfOk(OsCall(self, "release", key), key)
    ELSE self

\* the callers' "if key in self.pressed_keys: self.release_key(key)"
ReleaseIfHeld(self, key) ==
    IF key \in self.pressed_keys THEN release_key(self, key) ELSE self

RECURSIVE ReleaseRegular(_, _)
\* the loop "for key in regular_keys: key_up(key)" from the i-th key on; the
\* result of key_up is not looked at
ReleaseRegular(self, i) ==
    IF i > Len(KeyOrder) THEN self
    ELSE IF KeyOrder[i] \in self.pressed_keys
         THEN ReleaseRegular(OsCall(self, "release", KeyOrder[i]), i + 1)
         ELSE ReleaseRegular(self, i + 1)

\* "if has_middle_mouse: middle_mouse_up()"
ReleaseMiddle(self) ==
    IF "middle_mouse" \in self.pressed_keys
    THEN OsCall(self, "release", "middle_mouse")
    ELSE self

\* mutation of release_all_keys: the set is not cleared
release_all_keys_unclear(self) ==
    IF self.pressed_keys = {} THEN self
    ELSE ReleaseMiddle(ReleaseRegular(self, 1))

release_all_keys(self) ==
    IF self.pressed_keys = {} THEN self
    ELSE [ReleaseMiddle(ReleaseRegular(self, 1)) EXCEPT !.pressed_keys = {}]

RECURSIVE RunSteps(_, _, _)
\* the steps of send_sector_change from the i-th on: a sleep, or a key call
\* whose failure makes the function return
RunSteps(self, steps, i) ==
    IF i > Len(steps) THEN self
    ELSE IF steps[i].act = "sleep"
    THEN RunSteps(Sleep(self, steps[i].key), steps, i + 1)
    ELSE IF (self.n + 1) \in self.fails
    THEN OsCall(self, steps[i].act, steps[i].key)
    ELSE RunSteps(OsCall(self, steps[i].act, steps[i].key), steps, i + 1)

\* send_sector_change, Windows API branch (INTERCEPTION_AVAILABLE false): the
\* two sleeps do not depend on release_delay
send_sector_change(self, cancel_key, old_attack_key, new_attack_key, release_delay) ==
    RunSteps(self,
             << Act("press", cancel_key, TRUE),
                Act("sleep", "10ms", TRUE),
                Act("release", old_attack_key, TRUE),
                Act("release", cancel_key, TRUE),
                Act("sleep", "10ms", TRUE),
                Act("press", new_attack_key, TRUE) >>,
             1)

\* "if self.alt_mode_right_mouse_down: right_mouse_up(); ... = False"
ReleaseRightMouse(self) ==
    IF self.alt_mode_right_mouse_down
    THEN [RightMouse(self, "release") EXCEPT !.alt_mode_right_mouse_down = FALSE]
    ELSE self

exit_alt_mode(self) ==
    [ReleaseRightMouse(self) EXCEPT !.alt_mode_current_sector = None]

-----------------------------------------------------------------------------
\* Book-keeping of the sector-change sequence an update() runs: where it came
\* from, whether the old key was recorded as held when it began, which path it
\* took and which stretch of `emitted` it issued.  overlap records that the
\* in-progress flag was still set at the moment a sequence began.

BeginSeq(self, path, old_sector, new_sector) ==
    [self EXCEPT !.seq = [path |-> path, from |-> old_sector, to |-> new_sector,
                          held |-> KEY_MAPPINGS[old_sector] \in self.pressed_keys,
                          first |-> Len(self.emitted) + 1,
                          last |-> Len(self.emitted),
                          count |-> self.seq.count + 1,
                          overlap |-> self.seq.overlap]]

EndSeq(self, path) ==
    [self EXCEPT !.seq.path = path, !.seq.last = Len(self.emitted)]

\* a sequence is about to begin: was the in-progress flag still set?
NoteOpen(self) ==
    [self EXCEPT !.seq.overlap = @ \/ self.sector_change_in_progress]

\* "self.sector_change_in_progress = True; self.last_sector_change_time = current_time"
MarkInProgress(self, current_time) ==
    [NoteOpen(self) EXCEPT !.sector_change_in_progress = TRUE,
                           !.last_sector_change_time = current_time]

\* mutation of _enqueue_sector_change: the new key pressed before the old one
\* is released
_enqueue_sector_change_eager(self, old_sector, new_sector, reread) ==
    IF reread = ReadError THEN [EndSeq(self, "raised") EXCEPT !.exc = TRUE]
    ELSE IF DistanceOf(reread) < DEADZONE
    THEN EndSeq(ReleaseIfHeld([self EXCEPT !.sector_change_in_progress = FALSE],
                              KEY_MAPPINGS[old_sector]),
                "cancelled")
    ELSE EndSeq([release_key(
                     Sleep(ReleaseIfHeld(
                               press_key(press_key(self, KEY_MAPPINGS["cancel"]),
                                         KEY_MAPPINGS[new_sector]),
                               KEY_MAPPINGS[old_sector]),
                           "10ms"),
                     KEY_MAPPINGS["cancel"])
                   EXCEPT !.sector_change_in_progress = FALSE],
                "delayed")

\* _enqueue_sector_change: reread is what get_joystick_position returns when the
\* method reads the stick again, or ReadError when that read raises (the read
\* is outside the method's try block, so the exception leaves update())
_enqueue_sector_change(self, old_sector, new_sector, reread) ==
    IF reread = ReadError THEN [EndSeq(self, "raised") EXCEPT !.exc = TRUE]
    ELSE IF DistanceOf(reread) < DEADZONE
    THEN EndSeq(ReleaseIfHeld([self EXCEPT !.sector_change_in_progress = FALSE],
                              KEY_MAPPINGS[old_sector]),
                "cancelled")
    ELSE EndSeq([press_key(
                     release_key(
                         Sleep(ReleaseIfHeld(press_key(self, KEY_MAPPINGS["cancel"]),
                                             KEY_MAPPINGS[old_sector]),
                               "10ms"),
                         KEY_MAPPINGS["cancel"]),
                     KEY_MAPPINGS[new_sector])
                   EXCEPT !.sector_change_in_progress = FALSE],
                "delayed")

\* handle_alt_mode, the sector found outside the alternative mode's deadzone
\* (move_mouse is not recorded)
AltPress(self, new_sector) ==
    IF self.alt_mode_current_sector # None /\ new_sector # self.alt_mode_current_sector
    THEN [RightMouse(ReleaseRightMouse(self), "press")
             EXCEPT !.alt_mode_right_mouse_down = TRUE]
    ELSE IF self.alt_mode_current_sector = None
    THEN [RightMouse(self, "press") EXCEPT !.alt_mode_right_mouse_down = TRUE]
    ELSE self

AltSector(self, new_sector) ==
    IF new_sector # None
    THEN [AltPress(self, new_sector) EXCEPT !.alt_mode_current_sector = new_sector]
    ELSE self

handle_alt_mode(self, angle, distance) ==
    IF distance < (DEADZONE * 8) \div 10
    THEN [ReleaseRightMouse(self) EXCEPT !.alt_mode_current_sector = None]
    ELSE AltSector(self, FirstSector(SECTORS, angle, 1))

-----------------------------------------------------------------------------
\* update() (chakram_controller.py:1245-1497), in the order of the code

\* lines 1254-1280: alternative mode activation and deactivation
AltToggle(self, alt_key_pressed) ==
    IF alt_key_pressed /\ ~self.alt_mode_key_pressed
    THEN [release_all_keys([self EXCEPT !.alt_mode_active = TRUE,
                                        !.alt_mode_key_pressed = TRUE])
             EXCEPT !.sector_change_in_progress = FALSE]
    ELSE IF ~alt_key_pressed /\ self.alt_mode_key_pressed
    THEN [exit_alt_mode([self EXCEPT !.alt_mode_active = FALSE,
                                     !.alt_mode_key_pressed = FALSE])
             EXCEPT !.sector_change_in_progress = FALSE]
    ELSE self

\* lines 1286-1302: the deadzone test and the speed kept while inside
DeadzoneDetect(self, pos, distance, current_time) ==
    [self EXCEPT !.in_deadzone = (distance < DEADZONE),
                 !.deadzone_speed =
                     IF distance < DEADZONE
                     THEN calculate_movement_speed(self.last_position, pos,
                                                   self.last_position_time, current_time)
                     ELSE @]

\* lines 1304-1316: the tick that enters the deadzone
DeadzoneEntry(self, was_in_deadzone, current_time) ==
    IF self.in_deadzone /\ ~was_in_deadzone
    THEN [self EXCEPT !.deadzone_entry_time = current_time,
                      !.last_active_sector =
                          IF self.current_sector # None THEN self.current_sector ELSE @,
                      !.sector_change_in_progress = FALSE]
    ELSE self

\* lines 1318-1329: the debounced release
DeadzoneRelease(self, current_time) ==
    IF self.in_deadzone
       /\ current_time - self.deadzone_entry_time >= DEADZONE_TIME_THRESHOLD
       /\ self.pressed_keys # {}
    THEN [release_all_keys(self) EXCEPT !.current_sector = None,
                                        !.current_state = "neutral"]
    ELSE self

\* lines 1286-1329
DeadzoneStage(self, pos, distance, current_time) ==
    DeadzoneRelease(
        DeadzoneEntry(DeadzoneDetect(self, pos, distance, current_time),
                      self.in_deadzone, current_time),
        current_time)

\* line 1356: "self.current_sector = new_sector", not reached when the
\* sequence raised
SetSector(self, new_sector) ==
    IF self.exc THEN self ELSE [self EXCEPT !.current_sector = new_sector]

\* lines 1338-1356: the sector change through the deadzone
ExitChange(self, new_sector, current_time, reread) ==
    IF new_sector # None /\ self.last_active_sector # None
       /\ new_sector # self.last_active_sector
    THEN SetSector(
             _enqueue_sector_change(
                 BeginSeq(MarkInProgress(self, current_time), "delayed",
                          self.last_active_sector, new_sector),
                 self.last_active_sector, new_sector, reread),
             new_sector)
    ELSE self

\* lines 1331-1356: leaving the deadzone
DeadzoneExit(self, was_in_deadzone, angle, distance, eff, current_time, reread) ==
    IF ~self.in_deadzone /\ was_in_deadzone
    THEN ExitChange([self EXCEPT !.sector_change_in_progress = FALSE],
                    get_current_sector(SECTORS, angle, distance, eff),
                    current_time, reread)
    ELSE self

\* lines 1420-1425: the attack key released with the cancel button
ReleaseAttackOnCancel(self) ==
    IF self.current_state = "attack" /\ self.current_sector # None
    THEN ReleaseIfHeld(self, KEY_MAPPINGS[self.current_sector])
    ELSE self

\* lines 1405-1427: the joystick's first button
CancelButton(self, button) ==
    IF button
    THEN ReleaseAttackOnCancel(
             release_key(Sleep(press_key(self, KEY_MAPPINGS["cancel"]), "50ms"),
                         KEY_MAPPINGS["cancel"]))
    ELSE self

\* lines 1452-1460: pressed_keys after the batch, whatever the batch returned
RecordBatch(self, old_attack_key, new_attack_key) ==
    [self EXCEPT !.pressed_keys = (@ \ {old_attack_key}) \cup {new_attack_key}]

\* lines 1433-1472: the quick movement through the deadzone
QuickChange(self, new_sector) ==
    [EndSeq(RecordBatch(
                send_sector_change(
                    BeginSeq(NoteOpen(self), "batch", self.current_sector, new_sector),
                    KEY_MAPPINGS["cancel"], KEY_MAPPINGS[self.current_sector],
                    KEY_MAPPINGS[new_sector], 0),
                KEY_MAPPINGS[self.current_sector], KEY_MAPPINGS[new_sector]),
            "batch")
        EXCEPT !.last_sector_change_time = 0]

\* lines 1429-1490: sector changes and state changes
SectorStage(self, cancel_pressed, new_sector, new_state, quick_movement, was_in_deadzone, current_time, reread) ==
    IF ~cancel_pressed /\ new_sector # self.current_sector
    THEN IF self.current_sector # None /\ new_sector # None
         THEN IF quick_movement /\ was_in_deadzone
              THEN QuickChange(self, new_sector)
              ELSE _enqueue_sector_change(
                       BeginSeq(MarkInProgress(self, current_time), "delayed",
                                self.current_sector, new_sector),
                       self.current_sector, new_sector, reread)
         ELSE IF new_state = "attack" /\ new_sector # None
              THEN press_key(self, KEY_MAPPINGS[new_sector])
              ELSE self
    ELSE IF new_state # self.current_state
    THEN IF new_state = "attack" /\ new_sector # None
         THEN press_key(self, KEY_MAPPINGS[new_sector])
         ELSE self
    ELSE self

\* mutation of SkipsTick: no tick is skipped
SkipsTick_never(self, time_since_last_update) == FALSE

\* lines 1387-1399: a tick that finds a sector change in progress is skipped,
\* unless the time since the previous update exceeds sector_change_timeout
SkipsTick(self, time_since_last_update) ==
    self.sector_change_in_progress
    /\ ~(time_since_last_update > sector_change_timeout)

\* line 1393: the forced reset of a tick that is not skipped
ForceReset(self, time_since_last_update) ==
    IF self.sector_change_in_progress /\ time_since_last_update > sector_change_timeout
    THEN [self EXCEPT !.sector_change_in_progress = FALSE]
    ELSE self

\* lines 1492-1497: the assignments that end a processed tick
FinishTick(self, new_sector, new_state, pos, current_time) ==
    IF self.exc THEN self
    ELSE [self EXCEPT !.current_sector = new_sector,
                      !.current_state = new_state,
                      !.last_position = pos,
                      !.last_position_time = current_time,
                      !.outcome = "processed"]

\* lines 1401-1497, with the sector and the state lines 1369-1370 computed
Process(self, pos, new_sector, new_state, was_in_deadzone, current_time, time_since_last_update, button, reread) ==
    FinishTick(
        SectorStage(CancelButton(ForceReset(self, time_since_last_update), button),
                    button, new_sector, new_state,
                    self.deadzone_speed > DEADZONE_SPEED_THRESHOLD,
                    was_in_deadzone, current_time, reread),
        new_sector, new_state, pos, current_time)

\* lines 1367-1497: standard mode
StandardMode(self, pos, angle, distance, eff, was_in_deadzone, current_time, time_since_last_update, button, reread) ==
    IF SkipsTick(self, time_since_last_update)
    THEN [self EXCEPT !.last_position = pos,
                      !.last_position_time = current_time,
                      !.outcome = "skipped"]
    ELSE Process(self, pos,
                 get_current_sector(SECTORS, angle, distance, eff),
                 get_current_state(get_current_sector(SECTORS, angle, distance, eff),
                                   distance),
                 was_in_deadzone, current_time, time_since_last_update, button, reread)

\* lines 1358-1497: the alternative mode or the standard mode
ModeStage(self, was_in_deadzone, inp, eff, current_time, time_since_last_update) ==
    IF self.exc THEN self
    ELSE IF self.alt_mode_active
    THEN [handle_alt_mode(self, AngleOf(inp.pos), DistanceOf(inp.pos))
             EXCEPT !.last_position = inp.pos,
                    !.last_position_time = current_time,
                    !.outcome = "alt"]
    ELSE StandardMode(self, inp.pos, AngleOf(inp.pos), DistanceOf(inp.pos), eff,
                      was_in_deadzone, current_time, time_since_last_update,
                      inp.button, inp.reread)

\* lines 1282-1497: from the stick sample on
SampleStage(self, inp, eff, current_time, time_since_last_update) ==
    ModeStage(
        DeadzoneExit(DeadzoneStage(self, inp.pos, DistanceOf(inp.pos), current_time),
                     self.in_deadzone, AngleOf(inp.pos), DistanceOf(inp.pos), eff,
                     current_time, inp.reread),
        self.in_deadzone, inp, eff, current_time, time_since_last_update)

\* an exception that leaves update()
MarkRaised(self) ==
    IF self.exc THEN [self EXCEPT !.outcome = "raised"] ELSE self

\* inp: the stick sample, the alternative mode key, the first button, the time
\* since the previous call, and what _enqueue_sector_change reads from the stick
update(self, inp, eff) ==
    MarkRaised(
        SampleStage(AltToggle([self EXCEPT !.last_update_time = @ + inp.dt], inp.alt),
                    inp, eff, self.last_update_time + inp.dt, inp.dt))

\* "if self.alt_mode_active: self.exit_alt_mode()"
ExitAltIfActive(self) ==
    IF self.alt_mode_active THEN exit_alt_mode(self) ELSE self

\* stop(), after the join: release_all_keys and the alt mode clean-up
StopBody(self) == ExitAltIfActive(release_all_keys(self))

-----------------------------------------------------------------------------
\* State machine

NoPre == [in_progress |-> FALSE, change_time |-> 0]

-----------------------------------------------------------------------------
\* MouseAxes (mouse_axes.py).  Times in milliseconds, cursor displacements in
\* pixels, axes in 1/100.

STATE_IDLE == 0
STATE_AIMING == 1
STATE_COOLDOWN == 2

ALT_MODE_CURSOR_OFFSET == 20
MOUSE_AXES_MODIFIERS == {}
AIM_MODIFIER == "alt"
AIM_REQUIRES_MOVEMENT == TRUE
AIM_DIRECTION_MEMORY_MS == 250
ATTACK_PRESS_DURATION_MS == 50
POST_ATTACK_COOLDOWN_MS == 200
BLOCK_KEY == "right_mouse"

\* __init__, with the arguments the controller passes for the default
\* configuration except the two given
MouseAxes(modifiers, aim_requires_movement) ==
    [ modifiers |-> modifiers,
      scale |-> ALT_MODE_CURSOR_OFFSET,
      invert_y |-> FALSE,
      attack_on_modifier_release |-> TRUE,
      aim_modifier |-> AIM_MODIFIER,
      aim_requires_movement |-> aim_requires_movement,
      aim_direction_memory_ms |-> AIM_DIRECTION_MEMORY_MS,
      attack_press_duration_ms |-> ATTACK_PRESS_DURATION_MS,
      post_attack_cooldown_ms |-> POST_ATTACK_COOLDOWN_MS,
      block_while_held |-> TRUE,
      block_key |-> BLOCK_KEY,
      anchor |-> None,
      state |-> STATE_IDLE,
      last_sector |-> None,
      last_sector_ts |-> 0,
      cooldown_until_ts |-> 0,
      prev_mod_pressed |-> FALSE,
      block_pressed |-> FALSE,
      emitted |-> << >>,
      slept |-> 0,
      ret |-> Centre ]

\* a call of key_down, key_up, right_mouse_down or right_mouse_up; the result
\* is ignored
Emit(m, a, key) == [m EXCEPT !.emitted = Append(@, Act(a, key, TRUE))]

\* max(-1.0, min(1.0, d / self.scale)) of both coordinates, lines 233-236 and
\* 293-296
ScaledAxes(m, d) == << Clamp((100 * d[1]) \div m.scale), Clamp((100 * (IF m.invert_y THEN -d[2] ELSE d[2])) \div m.scale) >>

\* lines 158-174
_determine_sector(p) == IF DistanceOf(p) < DEADZONE THEN None ELSE FirstSector(SECTORS, AngleOf(p), 1)

\* lines 176-183
_press_block(m) ==
    IF m.block_key = None THEN m
    ELSE [Emit(m, IF m.block_key = "right_mouse" THEN "right_mouse_down" ELSE "key_down",
               m.block_key) EXCEPT !.block_pressed = TRUE]

\* lines 185-192
_release_block(m) ==
    IF m.block_key = None \/ ~m.block_pressed THEN m
    ELSE [Emit(m, IF m.block_key = "right_mouse" THEN "right_mouse_up" ELSE "key_up",
               m.block_key) EXCEPT !.block_pressed = FALSE]

\* lines 202-203
ExpireCooldown(m, now_ms) == IF m.state = STATE_COOLDOWN /\ now_ms >= m.cooldown_until_ts THEN [m EXCEPT !.state = STATE_IDLE] ELSE m

\* line 205, for the keys and buttons held down
ModPressed(m, held) == m.aim_modifier # None /\ m.aim_modifier \in held

\* lines 211-215
OtherModPressed(m, held) == \E k \in m.modifiers : k # m.aim_modifier /\ k \in held

\* lines 216-226
OtherModBranch(m, mod_pressed) == [m EXCEPT !.prev_mod_pressed = mod_pressed, !.last_sector = None, !.state = STATE_IDLE, !.ret = Centre]

\* lines 238-240
RememberSector(m, sector, now_ms) == IF sector # None THEN [m EXCEPT !.last_sector = sector, !.last_sector_ts = now_ms] ELSE m

\* lines 242-243
BlockIfHeld(m) == IF m.block_while_held /\ ~m.block_pressed THEN _press_block(m) ELSE m

\* lines 229-253
HeldBranch(m, d, now_ms) ==
    [BlockIfHeld(RememberSector([m EXCEPT !.state = IF @ = STATE_IDLE THEN STATE_AIMING
                                                    ELSE @],
                                _determine_sector(ScaledAxes(m, d)), now_ms))
       EXCEPT !.prev_mod_pressed = TRUE, !.ret = Centre]

\* lines 264-270
ValidAim(m, now_ms) == ~(m.aim_requires_movement /\ (m.last_sector = None \/ now_ms - m.last_sector_ts > m.aim_direction_memory_ms))

\* lines 274-278
Fire(m, attack_key, now_ms) == [Emit([Emit(m, "key_down", attack_key) EXCEPT !.slept = m.attack_press_duration_ms], "key_up", attack_key) EXCEPT !.cooldown_until_ts = now_ms + m.post_attack_cooldown_ms, !.state = STATE_COOLDOWN]

\* lines 260-278; every sector has a key in KEY_MAPPINGS
AttackOnRelease(m, now_ms) ==
    IF m.attack_on_modifier_release /\ m.state = STATE_AIMING
          /\ ValidAim(m, now_ms) /\ m.last_sector # None
    THEN Fire(m, KEY_MAPPINGS[m.last_sector], now_ms)
    ELSE m

\* lines 280-283
ForgetSector(m) == [m EXCEPT !.last_sector = None, !.last_sector_ts = 0, !.state = IF @ # STATE_COOLDOWN THEN STATE_IDLE ELSE @]

\* lines 256-283
ReleasedBranch(m, now_ms) == ForgetSector(AttackOnRelease(IF m.block_while_held THEN _release_block(m) ELSE m, now_ms))

\* lines 285-299
StandardAxes(m, d, mod_pressed) == [m EXCEPT !.prev_mod_pressed = mod_pressed, !.ret = ScaledAxes(m, d)]

\* lines 205-299, after the cooldown has been looked at
Dispatch(m, d, held, now_ms) ==
    IF OtherModPressed(m, held) THEN OtherModBranch(m, ModPressed(m, held))
    ELSE IF ModPressed(m, held) /\ m.state # STATE_COOLDOWN THEN HeldBranch(m, d, now_ms)
    ELSE StandardAxes(IF m.prev_mod_pressed /\ ~ModPressed(m, held)
                      THEN ReleasedBranch(m, now_ms) ELSE m,
                      d, ModPressed(m, held))

\* the record as a call of get_axes finds it
Entering(m) == [m EXCEPT !.emitted = << >>, !.slept = 0]

\* MouseAxes.get_axes: d is the displacement of the cursor from the anchor,
\* which every branch moves back onto the cursor
get_axes(m, d, held, now_ms) ==
    IF m.anchor = None THEN [Entering(m) EXCEPT !.anchor = "cursor", !.ret = Centre]
    ELSE Dispatch(ExpireCooldown(Entering(m), now_ms), d, held, now_ms)

-----------------------------------------------------------------------------
\* AimEngine (aim/engine.py)

\* AimConfig (aim/config.py).  Scales in tenths, alpha in quarters.

\* None as the value of scale_x and scale_y, which are numbers otherwise
NoScale == -1

\* dict.get(key, default)
Get(data, key, default) == IF key \in DOMAIN data THEN data[key] ELSE default

\* AimConfig.from_dict (lines 44-70): every field is data.get(key, default)
from_dict(data) ==
    [ enabled |-> Get(data, "enabled", TRUE),
      mode |-> Get(data, "mode", "hold"),
      button |-> Get(data, "button", "mouse4"),
      auto_lmb |-> Get(data, "auto_lmb", TRUE),
      scale |-> Get(data, "scale", 2),
      scale_x |-> Get(data, "scale_x", NoScale),
      scale_y |-> Get(data, "scale_y", NoScale),
      min_step |-> Get(data, "min_step", 1),
      smoothing |-> [ type |-> Get(Get(data, "smoothing", << >>), "type", "ema"),
                      alpha |-> Get(Get(data, "smoothing", << >>), "alpha", 1) ],
      transition |-> [ enable |-> Get(Get(data, "transition", << >>), "enable", FALSE),
                       ramp_up_ms |-> Get(Get(data, "transition", << >>), "ramp_up_ms", 40),
                       ramp_down_ms |-> Get(Get(data, "transition", << >>), "ramp_down_ms", 30) ],
      priority |-> Get(data, "priority", "high"),
      fallback_windows_speed |-> Get(data, "fallback_windows_speed", FALSE),
      fallback_speed |-> Get(data, "fallback_speed", 1) ]

\* the configuration built from an empty dictionary
AimConfig == from_dict(<< >>)

\* EMA(alpha), smoothing.py:33-38: the value as the fraction num / den
EMA(alpha) == [alpha |-> alpha, num |-> 0, den |-> 1]

\* __init__; the remainders in tenths
AimEngine(cfg) == [cfg |-> cfg, enabled |-> cfg.enabled, aiming |-> FALSE, _owns_lmb |-> FALSE, _ema_x |-> EMA(cfg.smoothing.alpha), _ema_y |-> EMA(cfg.smoothing.alpha), _rem_x |-> 0, _rem_y |-> 0, out |-> << >>, ret |-> <<0, 0>>]

\* lines 46-50, with the toggle mode flipping on releases as well
SetAiming_any(e, pressed) == IF e.cfg.mode = "hold" THEN [e EXCEPT !.aiming = pressed] ELSE [e EXCEPT !.aiming = ~@]

\* lines 46-50
SetAiming(e, pressed) == IF e.cfg.mode = "hold" THEN [e EXCEPT !.aiming = pressed] ELSE IF pressed THEN [e EXCEPT !.aiming = ~@] ELSE e

\* lines 54-62, without the tests of _owns_lmb
AutoLmb_unowned(e) ==
    IF ~e.cfg.auto_lmb THEN e
    ELSE IF e.aiming
    THEN [e EXCEPT !.out = Append(@, <<"LMB", "down">>), !._owns_lmb = TRUE]
    ELSE [e EXCEPT !.out = Append(@, <<"LMB", "up">>), !._owns_lmb = FALSE]

\* lines 54-62
AutoLmb(e) ==
    IF ~e.cfg.auto_lmb THEN e
    ELSE IF e.aiming /\ ~e._owns_lmb
    THEN [e EXCEPT !.out = Append(@, <<"LMB", "down">>), !._owns_lmb = TRUE]
    ELSE IF ~e.aiming /\ e._owns_lmb
    THEN [e EXCEPT !.out = Append(@, <<"LMB", "up">>), !._owns_lmb = FALSE]
    ELSE e

\* AimEngine.on_button
on_button(e, pressed) == IF ~e.enabled THEN [e EXCEPT !.out = << >>] ELSE AutoLmb(SetAiming([e EXCEPT !.out = << >>], pressed))

\* EMA.update, smoothing.py:40-42, alpha in quarters
EMA_update(ema, sample) == [ema EXCEPT !.num = ema.alpha * sample * ema.den + (4 - ema.alpha) * ema.num, !.den = 4 * ema.den]

\* int(round(num / den)): round() takes a half to the even neighbour
RoundHalfEven(num, den) ==
    IF 2 * (num - (num \div den) * den) < den THEN num \div den
    ELSE IF 2 * (num - (num \div den) * den) > den THEN num \div den + 1
    ELSE IF (num \div den) % 2 = 0 THEN num \div den ELSE num \div den + 1

\* int(rem) of a remainder in tenths: towards zero
IntPart(rem) == IF rem >= 0 THEN rem \div 10 ELSE -((-rem) \div 10)

\* lines 72-74
SmoothStage(e, dx, dy) ==
    IF e.cfg.smoothing.type = "ema"
    THEN [e EXCEPT !._ema_x = EMA_update(@, dx), !._ema_y = EMA_update(@, dy)]
    ELSE e

\* dx and dy after lines 72-74, for the engine SmoothStage returns
Smoothed(e, d, ema) == IF e.cfg.smoothing.type = "ema" THEN RoundHalfEven(ema.num, ema.den) ELSE d

\* lines 76-77
ScaleOf(axis_scale, scale) == IF axis_scale # NoScale THEN axis_scale ELSE scale

\* lines 84-85, with the remainder dropped
Carry_dropped(rem, f) == 0

\* lines 84-85
Carry(rem, f) == rem - 10 * f

\* lines 80-85
AccumulateStage(e, dx, dy) ==
    [e EXCEPT !._rem_x = Carry(@ + dx * ScaleOf(e.cfg.scale_x, e.cfg.scale),
                               IntPart(@ + dx * ScaleOf(e.cfg.scale_x, e.cfg.scale))),
              !._rem_y = Carry(@ + dy * ScaleOf(e.cfg.scale_y, e.cfg.scale),
                               IntPart(@ + dy * ScaleOf(e.cfg.scale_y, e.cfg.scale))),
              !.ret = << IntPart(e._rem_x + dx * ScaleOf(e.cfg.scale_x, e.cfg.scale)),
                         IntPart(e._rem_y + dy * ScaleOf(e.cfg.scale_y, e.cfg.scale)) >>]

\* lines 88-91, for one axis
MinStep(f, min_step) == IF f # 0 /\ (IF f < 0 THEN -f ELSE f) < min_step THEN (IF f > 0 THEN min_step ELSE -min_step) ELSE f

\* lines 87-92
MinStepStage(e) == [e EXCEPT !.ret = << MinStep(@[1], e.cfg.min_step), MinStep(@[2], e.cfg.min_step) >>]

\* lines 76-92, for the deltas lines 72-74 left
ScaleStage(e, dx, dy) == MinStepStage(AccumulateStage(e, Smoothed(e, dx, e._ema_x), Smoothed(e, dy, e._ema_y)))

\* AimEngine.scale_move
scale_move(e, dx, dy) == IF ~(e.enabled /\ e.aiming) THEN [e EXCEPT !.ret = << dx, dy >>] ELSE ScaleStage(SmoothStage(e, dx, dy), dx, dy)

NoCall == [fn |-> "none"]

\* ChakramController.__init__
InitControllerWith(keys) ==
    /\ current_sector = None
    /\ current_state = None
    /\ pressed_keys = keys
    /\ sector_change_in_progress = FALSE
    /\ last_sector_change_time = 0
    /\ last_position = Centre
    /\ last_position_time = 0
    /\ last_update_time = 0
    /\ in_deadzone = FALSE
    /\ deadzone_entry_time = 0
    /\ deadzone_speed = 0
    /\ last_active_sector = None
    /\ alt_mode_active = FALSE
    /\ alt_mode_key_pressed = FALSE
    /\ alt_mode_current_sector = None
    /\ alt_mode_right_mouse_down = FALSE
    /\ running = FALSE
    /\ thread = None
    /\ thread_pc = "none"
    /\ stop_pc = "idle"
    /\ op = "init"
    /\ emitted = << >>
    /\ outcome = "none"
    /\ seq = NoSeq
    /\ pre = NoPre
    /\ fn_in = NoCall
    /\ fn_out = None
    /\ arrivals = << >>
    /\ axes_clock = 0
    /\ axes_emitted = << >>
    /\ button_events = << >>
    /\ lmb_events = << >>
    /\ moves = << >>

\* the components the constructor builds (lines 94-95)
InitComponents ==
    /\ analyzer = MovementAnalyzer(CONTROLLER_HISTORY_SIZE)
    /\ detector = GameStateDetector(COMBAT_TIMEOUT)
    /\ aim_engine = AimEngine(AimConfig)
    /\ mouse_axes = MouseAxes(MOUSE_AXES_MODIFIERS, AIM_REQUIRES_MOVEMENT)

InitController == InitControllerWith({})

\* the configuration loaded by config.py: dynamic deadzone off (the default),
\* or on with a maximum factor of 1.0 or 2.0
DefaultConfig == <<FALSE, 15>>
Configs == { DefaultConfig, <<TRUE, 10>>, <<TRUE, 20>> }

\* the controller constructed, and initialize() (lines 139-167) called: devices
\* holds "Joystick" when a working joystick can be found and None when
\* initialize() can fail, which leaves self.joystick as the constructor set it
InitOn(configs, devices) ==
    /\ InitController
    /\ InitComponents
    /\ joystick \in devices
    /\ \E c \in configs :
          /\ dynamic_deadzone_enabled = c[1]
          /\ dyn_max_factor = c[2]

InitWith(configs) == InitOn(configs, {"Joystick"})

Init == InitWith(Configs)

\* writes the controller fields and the observation of the operation
Commit(r, name, p) ==
    /\ current_sector' = r.current_sector
    /\ current_state' = r.current_state
    /\ pressed_keys' = r.pressed_keys
    /\ sector_change_in_progress' = r.sector_change_in_progress
    /\ last_sector_change_time' = r.last_sector_change_time
    /\ last_position' = r.last_position
    /\ last_position_time' = r.last_position_time
    /\ last_update_time' = r.last_update_time
    /\ in_deadzone' = r.in_deadzone
    /\ deadzone_entry_time' = r.deadzone_entry_time
    /\ deadzone_speed' = r.deadzone_speed
    /\ last_active_sector' = r.last_active_sector
    /\ alt_mode_active' = r.alt_mode_active
    /\ alt_mode_key_pressed' = r.alt_mode_key_pressed
    /\ alt_mode_current_sector' = r.alt_mode_current_sector
    /\ alt_mode_right_mouse_down' = r.alt_mode_right_mouse_down
    /\ op' = name
    /\ emitted' = r.emitted
    /\ outcome' = r.outcome
    /\ seq' = r.seq
    /\ pre' = p

Snapshot ==
    [in_progress |-> sector_change_in_progress,
     change_time |-> last_sector_change_time]

EffectiveDeadzone ==
    get_effective_deadzone(ADAPTIVE_ENABLED, dynamic_deadzone_enabled, dyn_max_factor)

\* start() (lines 1574-1585); the call that finds the thread alive returns at
\* once.  One polling thread is modelled: start() is called when none is alive.
Start ==
    /\ stop_pc \in {"idle", "returned"}
    /\ thread_pc \in {"none", "dead"}
    /\ running' = TRUE
    /\ stop_pc' = "idle"
    /\ thread' = "Thread"
    /\ thread_pc' = "loop"
    /\ op' = "start"
    /\ emitted' = << >>
    /\ outcome' = "none"
    /\ seq' = NoSeq
    /\ pre' = NoPre
    /\ UNCHANGED << others, current_sector, current_state, pressed_keys,
                    sector_change_in_progress, last_sector_change_time, last_position,
                    last_position_time, last_update_time, in_deadzone,
                    deadzone_entry_time, deadzone_speed, last_active_sector,
                    alt_mode_active, alt_mode_key_pressed, alt_mode_current_sector,
                    alt_mode_right_mouse_down, dynamic_deadzone_enabled,
                    dyn_max_factor, fn_in, fn_out >>

\* _background_thread: the test "while self.running"
LoopCheck ==
    /\ thread_pc = "loop"
    /\ thread_pc' = IF running THEN "body" ELSE "dead"
    /\ UNCHANGED << others, current_sector, current_state, pressed_keys,
                    sector_change_in_progress, last_sector_change_time, last_position,
                    last_position_time, last_update_time, in_deadzone,
                    deadzone_entry_time, deadzone_speed, last_active_sector,
                    alt_mode_active, alt_mode_key_pressed, alt_mode_current_sector,
                    alt_mode_right_mouse_down, dynamic_deadzone_enabled, running,
                    thread, dyn_max_factor, stop_pc, op, emitted, outcome, seq, pre,
                    fn_in, fn_out >>

\* The faults an operation can meet, given r0, its run without faults: one of
\* the key injection calls it makes reports failure, or (readErrors) the stick
\* read of _enqueue_sector_change raises, or that read finds the stick back at
\* the centre.
FailChoices(r0, callFailures) ==
    {{}} \cup (IF callFailures THEN { {i} : i \in 1..r0.n } ELSE {})

RereadChoices(r0, pos, readErrors) ==
    IF r0.seq.path \in {"delayed", "cancelled"}
    THEN {pos, Centre} \cup (IF readErrors THEN {ReadError} ELSE {})
    ELSE {pos}

\* the end of an iteration: update() has returned, or an exception has left it
\* and ended the thread
BodyCommit(r) ==
    /\ Commit(r, "update", Snapshot)
    /\ thread_pc' = IF r.exc THEN "dead" ELSE "loop"

\* r0 is the iteration without faults
BodyFaults(r0, inp0, callFailures, readErrors) ==
    \E rr \in RereadChoices(r0, inp0.pos, readErrors) :
    \E fails \in FailChoices(r0, callFailures) :
        BodyCommit(IF rr = inp0.pos /\ fails = {} THEN r0
                   ELSE update([Self EXCEPT !.fails = fails],
                               [inp0 EXCEPT !.reread = rr], EffectiveDeadzone))

\* get_joystick_position (lines 234-242, USE_MOUSE_AXES off): the centre when
\* there is no joystick, the stick's axes otherwise
get_joystick_position(stick, axes) ==
    IF stick = None THEN Centre ELSE axes

\* what one update() reads: the stick, the alternative mode key, the first
\* button ("if self.joystick and ...", line 1408), the clock, and the stick
\* again inside _enqueue_sector_change
TickInput(axes, alt, button, dt) ==
    [pos |-> get_joystick_position(joystick, axes), alt |-> alt,
     button |-> (joystick # None /\ button), dt |-> dt,
     reread |-> get_joystick_position(joystick, axes)]

\* _background_thread: pump, update(), sleep
Body(samples, alts, buttons, deltas, maxTime, callFailures, readErrors) ==
    /\ thread_pc = "body"
    /\ \E pos \in samples, alt \in alts, button \in buttons, dt \in deltas :
          /\ last_update_time + dt <= maxTime
          /\ BodyFaults(update(Self, TickInput(pos, alt, button, dt), EffectiveDeadzone),
                        TickInput(pos, alt, button, dt), callFailures, readErrors)
    /\ UNCHANGED << others, dynamic_deadzone_enabled, running, thread, dyn_max_factor,
                    stop_pc, fn_in, fn_out >>

LoopBody == Body(Samples, BOOLEAN, BOOLEAN, {0, 1}, MaxTime, FALSE, FALSE)

\* key injection calls that fail and stick reads that raise; the alternative
\* mode key and the cancel button are left alone
LoopBodyFault ==
    Body(SamplesFault, {FALSE}, {FALSE}, {0, 3, 6}, MaxTimeFault, TRUE, TRUE)

Next == Start \/ LoopCheck \/ LoopBody

Spec == Init /\ [][Next]_vars

\* the default configuration, and the dynamic deadzone with a maximum factor of 1.0
InitFault == InitWith({DefaultConfig, <<TRUE, 10>>})

NextFault == Start \/ LoopCheck \/ LoopBodyFault

SpecFault == InitFault /\ [][NextFault]_vars

-----------------------------------------------------------------------------
\* stop() against the polling thread

\* stop(), lines 1589-1591: running is cleared; the caller joins the thread if
\* there is one
StopCall ==
    /\ stop_pc = "idle"
    /\ thread # None
    /\ running' = FALSE
    /\ stop_pc' = "join"
    /\ UNCHANGED << others, current_sector, current_state, pressed_keys,
                    sector_change_in_progress, last_sector_change_time, last_position,
                    last_position_time, last_update_time, in_deadzone,
                    deadzone_entry_time, deadzone_speed, last_active_sector,
                    alt_mode_active, alt_mode_key_pressed, alt_mode_current_sector,
                    alt_mode_right_mouse_down, dynamic_deadzone_enabled, thread,
                    dyn_max_factor, thread_pc, op, emitted, outcome, seq, pre,
                    fn_in, fn_out >>

\* stop(), lines 1593-1602, once join() has returned
StopRest ==
    /\ stop_pc = "join"
    /\ thread' = None
    /\ stop_pc' = "returned"
    /\ Commit(StopBody(Self), "stop", Snapshot)
    /\ UNCHANGED << others, dynamic_deadzone_enabled, running, dyn_max_factor, thread_pc,
                    fn_in, fn_out >>

\* join(timeout=1.0) returns because the thread has ended
StopJoined == thread_pc = "dead" /\ StopRest

\* join(timeout=1.0) returns after one second with the thread still inside an
\* iteration of its loop
StopTimedOut == thread_pc = "body" /\ StopRest

LoopBodyStop ==
    Body(SamplesStop, BOOLEAN, {FALSE}, {0, 1}, MaxTime, FALSE, FALSE)

InitStop == InitWith({DefaultConfig})

NextStop ==
    Start \/ LoopCheck \/ LoopBodyStop \/ StopCall \/ StopJoined \/ StopTimedOut

SpecStop == InitStop /\ [][NextStop]_vars

-----------------------------------------------------------------------------
\* the polling thread with and without an input device

LoopBodyDevice ==
    Body(SamplesStop, BOOLEAN, BOOLEAN, {0, 1}, MaxTime, FALSE, FALSE)

InitDevice == InitOn({DefaultConfig}, {None, "Joystick"})

NextDevice == Start \/ LoopCheck \/ LoopBodyDevice

SpecDevice == InitDevice /\ [][NextDevice]_vars

-----------------------------------------------------------------------------
\* release_all_keys called directly, several times in succession

MaxReleaseCalls == 2

AllKeys == AttackKeys \cup {KEY_MAPPINGS["cancel"]}

InitRelease ==
    /\ dynamic_deadzone_enabled = DefaultConfig[1]
    /\ dyn_max_factor = DefaultConfig[2]
    /\ joystick = "Joystick"
    /\ InitComponents
    /\ \E keys \in SUBSET AllKeys : InitControllerWith(keys)

\* fn_in counts the calls; fn_out keeps what the call before this one issued
ReleaseAllCall ==
    /\ fn_in.fn \in {"none", "release_all_keys"}
    /\ (fn_in.fn = "release_all_keys" => fn_in.calls < MaxReleaseCalls)
    /\ \E fails \in SUBSET (1..Cardinality(pressed_keys)) :
          Commit(release_all_keys([Self EXCEPT !.fails = fails]),
                 "release_all_keys", Snapshot)
    /\ fn_in' = [fn |-> "release_all_keys",
                 calls |-> IF fn_in.fn = "none" THEN 1 ELSE fn_in.calls + 1]
    /\ fn_out' = emitted
    /\ UNCHANGED << others, dynamic_deadzone_enabled, running, thread, dyn_max_factor,
                    thread_pc, stop_pc >>

NextRelease == ReleaseAllCall

SpecRelease == InitRelease /\ [][NextRelease]_vars

-----------------------------------------------------------------------------
\* get_current_sector and _is_angle_in_range called directly

Angles == 0..359

\* distances around the deadzones the configurations give
Distances == { 0, 99, 100, 101, 149, 150, 151, 199, 200, 201, 1000 }

EffectiveDeadzones ==
    { get_effective_deadzone(ADAPTIVE_ENABLED, c[1], c[2]) : c \in Configs }

\* tables that cover the circle: the default one, two halves, and three
\* sectors of which the first wraps around 0
Tables ==
    { SECTORS,
      << [name |-> "upper", start |-> 180, end |-> 359],
         [name |-> "lower", start |-> 0, end |-> 180] >>,
      << [name |-> "east", start |-> 300, end |-> 60],
         [name |-> "south", start |-> 60, end |-> 180],
         [name |-> "west", start |-> 180, end |-> 300] >> }

Ranges == { <<315, 45>>, <<45, 135>>, <<350, 10>>, <<0, 359>>, <<90, 90>>, <<359, 0>> }

ClassifyCall ==
    /\ fn_in = NoCall
    /\ \E t \in Tables, angle \in Angles, distance \in Distances,
          eff \in EffectiveDeadzones :
          /\ fn_in' = [fn |-> "get_current_sector", sectors |-> t, angle |-> angle,
                       distance |-> distance, effective_deadzone |-> eff]
          /\ fn_out' = get_current_sector(t, angle, distance, eff)
    /\ UNCHANGED << others, current_sector, current_state, pressed_keys,
                    sector_change_in_progress, last_sector_change_time, last_position,
                    last_position_time, last_update_time, in_deadzone,
                    deadzone_entry_time, deadzone_speed, last_active_sector,
                    alt_mode_active, alt_mode_key_pressed, alt_mode_current_sector,
                    alt_mode_right_mouse_down, dynamic_deadzone_enabled, running,
                    thread, dyn_max_factor, thread_pc, stop_pc, op, emitted, outcome,
                    seq, pre >>

RangeCall ==
    /\ fn_in = NoCall
    /\ \E angle \in Angles, r \in Ranges :
          /\ fn_in' = [fn |-> "_is_angle_in_range", angle |-> angle,
                       start |-> r[1], end |-> r[2]]
          /\ fn_out' = _is_angle_in_range(angle, r[1], r[2])
    /\ UNCHANGED << others, current_sector, current_state, pressed_keys,
                    sector_change_in_progress, last_sector_change_time, last_position,
                    last_position_time, last_update_time, in_deadzone,
                    deadzone_entry_time, deadzone_speed, last_active_sector,
                    alt_mode_active, alt_mode_key_pressed, alt_mode_current_sector,
                    alt_mode_right_mouse_down, dynamic_deadzone_enabled, running,
                    thread, dyn_max_factor, thread_pc, stop_pc, op, emitted, outcome,
                    seq, pre >>

NextClassify == ClassifyCall \/ RangeCall

SpecClassify == InitStop /\ [][NextClassify]_vars

-----------------------------------------------------------------------------
\* get_dynamic_deadzone, get_effective_deadzone and get_transition_smoothness
\* called directly

\* movement speeds in 1/100 per second, on both sides of 0.5 and of 2.0
Speeds == { sp \in 0..260 : sp % 10 = 0 \/ sp \in {49, 51, 199, 201} }

\* (min_factor, max_factor) in tenths: the minimum below, equal to (the
\* default) and above the maximum
FactorPairs == { <<8, 15>>, <<10, 20>>, <<15, 15>>, <<15, 8>> }

BaseDeadzones == { DEADZONE, COMBAT_MODE_DEADZONE }

GameStates == { "exploration", "combat" }

DynamicDeadzoneCall ==
    /\ fn_in = NoCall
    /\ \E speed \in Speeds, base \in BaseDeadzones, f \in FactorPairs :
          /\ fn_in' = [fn |-> "get_dynamic_deadzone", speed |-> speed,
                       base_deadzone |-> base, min_factor |-> f[1],
                       max_factor |-> f[2]]
          /\ fn_out' = get_dynamic_deadzone(speed, base, f[1], f[2])
    /\ UNCHANGED << others, current_sector, current_state, pressed_keys,
                    sector_change_in_progress, last_sector_change_time, last_position,
                    last_position_time, last_update_time, in_deadzone,
                    deadzone_entry_time, deadzone_speed, last_active_sector,
                    alt_mode_active, alt_mode_key_pressed, alt_mode_current_sector,
                    alt_mode_right_mouse_down, dynamic_deadzone_enabled, running,
                    thread, dyn_max_factor, thread_pc, stop_pc, op, emitted, outcome,
                    seq, pre >>

EffectiveDeadzoneCall ==
    /\ fn_in = NoCall
    /\ \E adaptive \in BOOLEAN, dynamic \in BOOLEAN, combat \in BOOLEAN,
          game_state \in GameStates, speed \in Speeds, f \in FactorPairs :
          /\ fn_in' = [fn |-> "get_effective_deadzone", adaptive |-> adaptive,
                       dynamic |-> dynamic, combat |-> combat,
                       game_state |-> game_state, speed |-> speed,
                       min_factor |-> f[1], max_factor |-> f[2]]
          /\ fn_out' = get_effective_deadzone_with(adaptive, dynamic, combat,
                                                   game_state, speed, f[1], f[2])
    /\ UNCHANGED << others, current_sector, current_state, pressed_keys,
                    sector_change_in_progress, last_sector_change_time, last_position,
                    last_position_time, last_update_time, in_deadzone,
                    deadzone_entry_time, deadzone_speed, last_active_sector,
                    alt_mode_active, alt_mode_key_pressed, alt_mode_current_sector,
                    alt_mode_right_mouse_down, dynamic_deadzone_enabled, running,
                    thread, dyn_max_factor, thread_pc, stop_pc, op, emitted, outcome,
                    seq, pre >>

TransitionSmoothnessCall ==
    /\ fn_in = NoCall
    /\ \E adaptive \in BOOLEAN, combat \in BOOLEAN, game_state \in GameStates,
          speed \in Speeds :
          /\ fn_in' = [fn |-> "get_transition_smoothness", adaptive |-> adaptive,
                       combat |-> combat, game_state |-> game_state,
                       speed |-> speed]
          /\ fn_out' = get_transition_smoothness(adaptive, combat, game_state, speed)
    /\ UNCHANGED << others, current_sector, current_state, pressed_keys,
                    sector_change_in_progress, last_sector_change_time, last_position,
                    last_position_time, last_update_time, in_deadzone,
                    deadzone_entry_time, deadzone_speed, last_active_sector,
                    alt_mode_active, alt_mode_key_pressed, alt_mode_current_sector,
                    alt_mode_right_mouse_down, dynamic_deadzone_enabled, running,
                    thread, dyn_max_factor, thread_pc, stop_pc, op, emitted, outcome,
                    seq, pre >>

BaseSmoothnesses == { TRANSITION_SMOOTHNESS, COMBAT_MODE_TRANSITION_SMOOTHNESS }

\* a call of MovementAnalyzer.get_transition_smoothness on an analyzer whose
\* current_speed is speed
AnalyzerSmoothnessCall ==
    /\ fn_in = NoCall
    /\ \E speed \in Speeds, base \in BaseSmoothnesses, f \in FactorPairs :
          /\ fn_in' = [fn |-> "analyzer.get_transition_smoothness", speed |-> speed,
                       base_smoothness |-> base, min_factor |-> f[1],
                       max_factor |-> f[2]]
          /\ fn_out' = analyzer_get_transition_smoothness(speed, base, f[1], f[2])
    /\ UNCHANGED << others, current_sector, current_state, pressed_keys,
                    sector_change_in_progress, last_sector_change_time, last_position,
                    last_position_time, last_update_time, in_deadzone,
                    deadzone_entry_time, deadzone_speed, last_active_sector,
                    alt_mode_active, alt_mode_key_pressed, alt_mode_current_sector,
                    alt_mode_right_mouse_down, dynamic_deadzone_enabled, running,
                    thread, dyn_max_factor, thread_pc, stop_pc, op, emitted, outcome,
                    seq, pre >>

NextAdaptive ==
    \/ DynamicDeadzoneCall
    \/ EffectiveDeadzoneCall
    \/ TransitionSmoothnessCall
    \/ AnalyzerSmoothnessCall

SpecAdaptive == InitStop /\ [][NextAdaptive]_vars

-----------------------------------------------------------------------------
\* MovementAnalyzer.update called directly

\* a small analyzer (3 is the least history_size for which line 85 can index
\* timestamp_history[-3]) and the controller's
\* MovementAnalyzer.predict_next_sector, the value returned: None on a low
\* confidence and inside the deadzone, else the first sector of the table
\* whose range holds the angle of the predicted position (both ends included);
\* the confidence is in 1/1000
PredictedSector(a, sectors, deadzone) ==
    IF a.predicted_position = None \/ a.prediction_confidence < 300 THEN None
    ELSE IF DistanceOf(a.predicted_position) < deadzone THEN None
    ELSE FirstSector(sectors, AngleOf(a.predicted_position), 1)

\* MovementAnalyzer.predict_next_sector, the analyzer it leaves: the field
\* predicted_sector is assigned only where a sector is returned (lines 178, 182)
predict_next_sector(a, sectors, deadzone) ==
    IF PredictedSector(a, sectors, deadzone) = None THEN a
    ELSE [a EXCEPT !.predicted_sector = PredictedSector(a, sectors, deadzone)]

\* the metrics MovementAnalyzer.update returns (lines 99-108), read from the
\* analyzer it leaves
Metrics(a, position) ==
    [ position |-> position,
      velocity |-> a.current_velocity,
      speed |-> a.current_speed,
      acceleration |-> a.current_acceleration,
      direction |-> a.current_direction,
      predicted_position |-> a.predicted_position,
      predicted_sector |-> a.predicted_sector,
      prediction_confidence |-> a.prediction_confidence ]

HistorySizes == { 3, CONTROLLER_HISTORY_SIZE }

\* updates given to the small analyzer
MaxUpdates == 4
\* updates given to the controller's analyzer beyond its capacity
MaxOverflow == 2
\* samples off the centre given to the controller's analyzer
MaxMoves == 2

\* positions on one axis: at 50 ms and 100 ms apart they give the speeds 0,
\* 0.5, 1.0, 1.5, 2.0, 3.0 and 4.0
AnalyzerPositions == { Centre, <<5, 0>>, <<20, 0>> }

\* time between two updates, in steps of 50 ms; 0 when time.time() has not moved
TimeSteps == { 0, 1, 2 }

LastTimestamp == IF arrivals = << >> THEN 0 ELSE arrivals[Len(arrivals)][2]

Moves == Cardinality({ i \in 1..Len(arrivals) : arrivals[i][1] # Centre })

Feed(position, timestamp) ==
    /\ analyzer' = analyzer_update(analyzer, position, timestamp)
    /\ arrivals' = Append(arrivals, << position, timestamp >>)
    /\ fn_in' = [fn |-> "update", position |-> position, timestamp |-> timestamp]
    /\ fn_out' = Metrics(analyzer_update(analyzer, position, timestamp), position)
    /\ UNCHANGED << joystick, detector, mouse_axes, axes_clock, axes_emitted,
                    aim_engine, button_events, lmb_events, moves,
                    current_sector, current_state, pressed_keys,
                    sector_change_in_progress, last_sector_change_time, last_position,
                    last_position_time, last_update_time, in_deadzone,
                    deadzone_entry_time, deadzone_speed, last_active_sector,
                    alt_mode_active, alt_mode_key_pressed, alt_mode_current_sector,
                    alt_mode_right_mouse_down, dynamic_deadzone_enabled, running,
                    thread, dyn_max_factor, thread_pc, stop_pc, op, emitted, outcome,
                    seq, pre >>

AnalyzerUpdate ==
    /\ analyzer.history_size < CONTROLLER_HISTORY_SIZE
    /\ Len(arrivals) < MaxUpdates
    /\ \E position \in AnalyzerPositions, dt \in TimeSteps :
          Feed(position, LastTimestamp + dt)

\* the controller's analyzer, fed a stick that leaves the centre a few times
ControllerAnalyzerUpdate ==
    /\ analyzer.history_size = CONTROLLER_HISTORY_SIZE
    /\ Len(arrivals) < CONTROLLER_HISTORY_SIZE + MaxOverflow
    /\ \E position \in AnalyzerPositions :
          /\ position # Centre => Moves < MaxMoves
          /\ Feed(position, LastTimestamp + 1)

InitAnalyzer ==
    /\ InitController
    /\ joystick = "Joystick"
    /\ dynamic_deadzone_enabled = DefaultConfig[1]
    /\ dyn_max_factor = DefaultConfig[2]
    /\ \E history_size \in HistorySizes : analyzer = MovementAnalyzer(history_size)
    /\ detector = GameStateDetector(COMBAT_TIMEOUT)
    /\ aim_engine = AimEngine(AimConfig)
    /\ mouse_axes = MouseAxes(MOUSE_AXES_MODIFIERS, AIM_REQUIRES_MOVEMENT)

\* a call of predict_next_sector after an update, as the caller at
\* chakram_controller.py:627-633 makes it
PredictCall ==
    /\ fn_in.fn = "update"
    /\ \E deadzone \in BaseDeadzones :
          /\ analyzer' = predict_next_sector(analyzer, SECTORS, deadzone)
          /\ fn_in' = [fn |-> "predict_next_sector", deadzone |-> deadzone]
          /\ fn_out' = PredictedSector(analyzer, SECTORS, deadzone)
    /\ UNCHANGED << joystick, arrivals, detector, mouse_axes, axes_clock, axes_emitted,
                    aim_engine, button_events, lmb_events, moves,
                    current_sector, current_state, pressed_keys,
                    sector_change_in_progress, last_sector_change_time, last_position,
                    last_position_time, last_update_time, in_deadzone,
                    deadzone_entry_time, deadzone_speed, last_active_sector,
                    alt_mode_active, alt_mode_key_pressed, alt_mode_current_sector,
                    alt_mode_right_mouse_down, dynamic_deadzone_enabled, running,
                    thread, dyn_max_factor, thread_pc, stop_pc, op, emitted, outcome,
                    seq, pre >>

NextAnalyzer == AnalyzerUpdate \/ ControllerAnalyzerUpdate \/ PredictCall

SpecAnalyzer == InitAnalyzer /\ [][NextAnalyzer]_vars

-----------------------------------------------------------------------------
\* GameStateDetector.update called directly

\* time.time() at the first update: long after the epoch, so that the
\* constructor's last_combat_action_time = 0 lies outside the window
StartTime == 100
\* seconds the updates span
MaxDetectorTime == 8

\* sets of pressed keys: none, one that is no combat key, combat keys
DetectorKeys == { {}, {"alt"}, {"middle_mouse", "down"} }

\* seconds between two updates
DetectorSteps == { 1, 4 }

DetectorNow == IF fn_in.fn = "GameStateDetector.update" THEN fn_in.now ELSE StartTime

DetectorUpdate ==
    \E keys \in DetectorKeys, dt \in DetectorSteps :
        /\ DetectorNow + dt <= StartTime + MaxDetectorTime
        /\ detector' = detector_update(detector, keys, DetectorNow + dt)
        /\ fn_in' = [fn |-> "GameStateDetector.update", keys |-> keys,
                     now |-> DetectorNow + dt, before |-> detector]
        /\ fn_out' = detector'.current_state
        /\ UNCHANGED << joystick, analyzer, arrivals, mouse_axes, axes_clock,
                        axes_emitted, aim_engine, button_events, lmb_events, moves,
                    current_sector, current_state, pressed_keys,
                    sector_change_in_progress, last_sector_change_time, last_position,
                    last_position_time, last_update_time, in_deadzone,
                    deadzone_entry_time, deadzone_speed, last_active_sector,
                    alt_mode_active, alt_mode_key_pressed, alt_mode_current_sector,
                    alt_mode_right_mouse_down, dynamic_deadzone_enabled, running,
                    thread, dyn_max_factor, thread_pc, stop_pc, op, emitted, outcome,
                    seq, pre >>

NextDetector == DetectorUpdate

SpecDetector == InitStop /\ [][NextDetector]_vars

-----------------------------------------------------------------------------
\* MouseAxes.get_axes called directly

\* the time the calls span, in milliseconds
MaxAxesTime == 450

\* milliseconds between the end of a call and the time the next one reads
AxesSteps == { 25, 100 }

\* displacements of the cursor, in pixels: none, to the right, downwards
Displacements == { Centre, <<20, 0>>, <<0, 40>> }

\* the keys that can be held down
ModifierKeys == { "alt", "shift" }

\* mouse_axes_modifiers as config.py sets it by default, and with the aim
\* modifier and a second modifier
ModifierConfigs == { MOUSE_AXES_MODIFIERS, {"alt", "shift"} }

GetAxes ==
    \E d \in Displacements, held \in SUBSET ModifierKeys, dt \in AxesSteps :
        /\ axes_clock + dt <= MaxAxesTime
        /\ mouse_axes' = get_axes(mouse_axes, d, held, axes_clock + dt)
        /\ axes_emitted' = mouse_axes'.emitted
        /\ axes_clock' = axes_clock + dt + mouse_axes'.slept
        /\ fn_in' = [fn |-> "get_axes", d |-> d, held |-> held,
                     now_ms |-> axes_clock + dt, before |-> mouse_axes]
        /\ fn_out' = mouse_axes'.ret
        /\ UNCHANGED << joystick, analyzer, arrivals, detector, aim_engine, button_events,
                        lmb_events, moves,
                    current_sector, current_state, pressed_keys,
                    sector_change_in_progress, last_sector_change_time, last_position,
                    last_position_time, last_update_time, in_deadzone,
                    deadzone_entry_time, deadzone_speed, last_active_sector,
                    alt_mode_active, alt_mode_key_pressed, alt_mode_current_sector,
                    alt_mode_right_mouse_down, dynamic_deadzone_enabled, running,
                    thread, dyn_max_factor, thread_pc, stop_pc, op, emitted, outcome,
                    seq, pre >>

InitAxes ==
    /\ InitController
    /\ joystick = None
    /\ dynamic_deadzone_enabled = DefaultConfig[1]
    /\ dyn_max_factor = DefaultConfig[2]
    /\ analyzer = MovementAnalyzer(CONTROLLER_HISTORY_SIZE)
    /\ detector = GameStateDetector(COMBAT_TIMEOUT)
    /\ aim_engine = AimEngine(AimConfig)
    /\ \E modifiers \in ModifierConfigs, aim_requires_movement \in BOOLEAN :
          mouse_axes = MouseAxes(modifiers, aim_requires_movement)

NextAxes == GetAxes

SpecAxes == InitAxes /\ [][NextAxes]_vars

-----------------------------------------------------------------------------
\* AimEngine.on_button called directly

\* calls of on_button
MaxButtons == 6

\* the configurations on_button distinguishes
AimConfigs == { from_dict([enabled |-> en, mode |-> mode, auto_lmb |-> lmb]) : en \in BOOLEAN, mode \in {"hold", "toggle"}, lmb \in BOOLEAN }

OnButton ==
    /\ Len(button_events) < MaxButtons
    /\ \E pressed \in BOOLEAN :
          /\ aim_engine' = on_button(aim_engine, pressed)
          /\ button_events' = Append(button_events, pressed)
          /\ lmb_events' = lmb_events \o aim_engine'.out
    /\ UNCHANGED << joystick, analyzer, arrivals, detector, mouse_axes, axes_clock,
                    axes_emitted, moves,
                    current_sector, current_state, pressed_keys,
                    sector_change_in_progress, last_sector_change_time, last_position,
                    last_position_time, last_update_time, in_deadzone,
                    deadzone_entry_time, deadzone_speed, last_active_sector,
                    alt_mode_active, alt_mode_key_pressed, alt_mode_current_sector,
                    alt_mode_right_mouse_down, dynamic_deadzone_enabled, running,
                    thread, dyn_max_factor, thread_pc, stop_pc, op, emitted, outcome,
                    seq, pre, fn_in, fn_out >>

InitAim ==
    /\ InitController
    /\ joystick = "Joystick"
    /\ dynamic_deadzone_enabled = DefaultConfig[1]
    /\ dyn_max_factor = DefaultConfig[2]
    /\ analyzer = MovementAnalyzer(CONTROLLER_HISTORY_SIZE)
    /\ detector = GameStateDetector(COMBAT_TIMEOUT)
    /\ mouse_axes = MouseAxes(MOUSE_AXES_MODIFIERS, AIM_REQUIRES_MOVEMENT)
    /\ \E cfg \in AimConfigs : aim_engine = AimEngine(cfg)

NextAim == OnButton

SpecAim == InitAim /\ [][NextAim]_vars

-----------------------------------------------------------------------------
\* AimConfig.from_dict called directly

\* the dictionaries with the key absent or set to one of the values
Optional(key, values) == { << >> } \cup { key :> v : v \in values }

\* dictionaries as the tests and the command line build them
ConfigDicts ==
    { b @@ m @@ e @@ sc @@ sm :
        b \in Optional("button", {"mouse4", "mouse5", "mouse_back", "back"}),
        m \in Optional("mode", {"hold", "toggle"}),
        e \in Optional("enabled", BOOLEAN),
        sc \in Optional("scale", {1, 5}),
        sm \in Optional("smoothing", {[type |-> "off"]}) }

FromDictCall ==
    /\ fn_in = NoCall
    /\ \E data \in ConfigDicts :
          /\ fn_in' = [fn |-> "from_dict", data |-> data]
          /\ fn_out' = from_dict(data)
    /\ UNCHANGED << others,
                    current_sector, current_state, pressed_keys,
                    sector_change_in_progress, last_sector_change_time, last_position,
                    last_position_time, last_update_time, in_deadzone,
                    deadzone_entry_time, deadzone_speed, last_active_sector,
                    alt_mode_active, alt_mode_key_pressed, alt_mode_current_sector,
                    alt_mode_right_mouse_down, dynamic_deadzone_enabled, running,
                    thread, dyn_max_factor, thread_pc, stop_pc, op, emitted, outcome,
                    seq, pre >>

NextConfig == FromDictCall

SpecConfig == InitStop /\ [][NextConfig]_vars

-----------------------------------------------------------------------------
\* AimEngine.scale_move called directly, between button events

\* calls of scale_move
MaxScaleCalls == 4
\* button events between them
MaxScaleButtons == 2

\* mouse deltas: those of the test, and one with both signs
Deltas == { <<10, -10>>, <<1, 0>>, <<-3, 1>> }

\* configurations: the test's (scale 0.5, smoothing off), the default scale,
\* a scale of its own for y, min_step 2, and the default smoothing
ScaleDicts ==
    { [scale |-> 5, smoothing |-> [type |-> "off"]],
      [smoothing |-> [type |-> "off"]],
      [scale |-> 5, scale_y |-> 15, smoothing |-> [type |-> "off"]],
      [scale |-> 5, min_step |-> 2, smoothing |-> [type |-> "off"]],
      [scale |-> 5] }

ScaleMove ==
    /\ Len(moves) < MaxScaleCalls
    /\ \E d \in Deltas :
          /\ aim_engine' = scale_move(aim_engine, d[1], d[2])
          /\ moves' = Append(moves, [dx |-> d[1], dy |-> d[2],
                                     fx |-> aim_engine'.ret[1], fy |-> aim_engine'.ret[2],
                                     aiming |-> aim_engine.enabled /\ aim_engine.aiming])
    /\ UNCHANGED << joystick, analyzer, arrivals, detector, mouse_axes, axes_clock,
                    axes_emitted, button_events, lmb_events,
                    current_sector, current_state, pressed_keys,
                    sector_change_in_progress, last_sector_change_time, last_position,
                    last_position_time, last_update_time, in_deadzone,
                    deadzone_entry_time, deadzone_speed, last_active_sector,
                    alt_mode_active, alt_mode_key_pressed, alt_mode_current_sector,
                    alt_mode_right_mouse_down, dynamic_deadzone_enabled, running,
                    thread, dyn_max_factor, thread_pc, stop_pc, op, emitted, outcome,
                    seq, pre, fn_in, fn_out >>

ScaleButton ==
    /\ Len(button_events) < MaxScaleButtons
    /\ \E pressed \in BOOLEAN :
          /\ aim_engine' = on_button(aim_engine, pressed)
          /\ button_events' = Append(button_events, pressed)
          /\ lmb_events' = lmb_events \o aim_engine'.out
    /\ UNCHANGED << joystick, analyzer, arrivals, detector, mouse_axes, axes_clock,
                    axes_emitted, moves,
                    current_sector, current_state, pressed_keys,
                    sector_change_in_progress, last_sector_change_time, last_position,
                    last_position_time, last_update_time, in_deadzone,
                    deadzone_entry_time, deadzone_speed, last_active_sector,
                    alt_mode_active, alt_mode_key_pressed, alt_mode_current_sector,
                    alt_mode_right_mouse_down, dynamic_deadzone_enabled, running,
                    thread, dyn_max_factor, thread_pc, stop_pc, op, emitted, outcome,
                    seq, pre, fn_in, fn_out >>

InitScale ==
    /\ InitController
    /\ joystick = "Joystick"
    /\ dynamic_deadzone_enabled = DefaultConfig[1]
    /\ dyn_max_factor = DefaultConfig[2]
    /\ analyzer = MovementAnalyzer(CONTROLLER_HISTORY_SIZE)
    /\ detector = GameStateDetector(COMBAT_TIMEOUT)
    /\ mouse_axes = MouseAxes(MOUSE_AXES_MODIFIERS, AIM_REQUIRES_MOVEMENT)
    /\ \E data \in ScaleDicts : aim_engine = AimEngine(from_dict(data))

NextScale == ScaleMove \/ ScaleButton

SpecScale == InitScale /\ [][NextScale]_vars

-----------------------------------------------------------------------------
\* Properties

IsKeyAct(a) == a.act # "sleep"

\* the key actions of the sector-change sequence the last update() ran
SeqActs == SelectSeq(SubSeq(emitted, seq.first, seq.last), IsKeyAct)

\* the place of a key action in the order press(cancel), release(key(a)),
\* release(cancel), press(key(b)) of the sequence a -> b; 0 for any other action
Rank(a) ==
    CASE a.act = "press" /\ a.key = KEY_MAPPINGS["cancel"] -> 1
      [] a.act = "release" /\ a.key = KEY_MAPPINGS[seq.from] -> 2
      [] a.act = "release" /\ a.key = KEY_MAPPINGS["cancel"] -> 3
      [] a.act = "press" /\ a.key = KEY_MAPPINGS[seq.to] -> 4
      [] OTHER -> 0

C2_AtMostOneAttackKey == Cardinality(pressed_keys \cap AttackKeys) <= 1

\* C3: once stop() has returned, the polling thread presses no key.
C3_NoPressAfterStop ==
    (stop_pc = "returned" /\ op = "update") =>
        \A i \in 1..Len(emitted) : emitted[i].act # "press"

\* C4: after a call of release_all_keys pressed_keys is empty, whether the
\* releases succeeded or not, and a call that follows it issues nothing.
C4_SecondReleaseAllSilent ==
    fn_in.fn = "release_all_keys" =>
        /\ pressed_keys = {}
        /\ (fn_in.calls >= 2 => emitted = << >>)

\* a second call after a first call one of whose releases failed
C4_Witness ==
    /\ fn_in.fn = "release_all_keys"
    /\ fn_in.calls = 2
    /\ emitted = << >>
    /\ \E i \in 1..Len(fn_out) : fn_out[i].act = "release" /\ ~fn_out[i].ok

\* the tick pressed the joystick's first button (the only 50 ms sleep)
ButtonTick == \E i \in 1..Len(emitted) : emitted[i] = Act("sleep", "50ms", TRUE)

\* C5: a tick that ends inside the deadzone before DEADZONE_TIME_THRESHOLD has
\* elapsed since the entry releases no attack key (ticks of the alternative mode
\* and ticks with the cancel button pressed aside).
C5_NoReleaseBeforeThreshold ==
    (/\ op = "update"
     /\ outcome = "processed"
     /\ in_deadzone
     /\ last_update_time - deadzone_entry_time < DEADZONE_TIME_THRESHOLD
     /\ ~ButtonTick) =>
        \A i \in 1..Len(emitted) :
            ~(emitted[i].act = "release" /\ emitted[i].key \in AttackKeys)

\* C6: a tick that finds the change still in progress more than
\* sector_change_timeout after it was marked is not skipped.
C6_TimeoutForcesReset ==
    (/\ op = "update"
     /\ pre.in_progress
     /\ last_update_time - pre.change_time > sector_change_timeout) =>
        outcome # "skipped"

\* C7: no sequence begins while the in-progress flag is still set, a tick runs
\* at most one sequence, a skipped tick runs none, and a tick that was
\* processed leaves the flag clear.
C7_OneOpenSequence ==
    /\ ~seq.overlap
    /\ seq.count <= 1
    /\ (outcome = "skipped" => seq.count = 0)
    /\ (outcome = "processed" => ~sector_change_in_progress)

\* a tick that found the flag set, cleared it and ran a sequence
C7_Witness ==
    /\ op = "update"
    /\ pre.in_progress
    /\ seq.count = 1
    /\ seq.path = "delayed"
    /\ ~sector_change_in_progress

\* C8: the quick path issues its four key actions with no sleep between them
\* and ends in sector b with key(b) the only attack key in pressed_keys.
C8_BatchWithoutSleep ==
    (op = "update" /\ seq.path = "batch") =>
        /\ \A i \in seq.first..seq.last : emitted[i].act # "sleep"
        /\ current_sector = seq.to
        /\ pressed_keys \cap AttackKeys = {KEY_MAPPINGS[seq.to]}

\* C9: get_current_sector returns None when distance < effective deadzone and
\* the name of a sector of the table otherwise.
C9_ClassifyTotal ==
    fn_in.fn = "get_current_sector" =>
        IF fn_in.distance < fn_in.effective_deadzone
        THEN fn_out = None
        ELSE fn_out \in NamesOf(fn_in.sectors)

\* the stick exactly on the effective deadzone
C9_Witness ==
    /\ fn_in.fn = "get_current_sector"
    /\ fn_in.distance = fn_in.effective_deadzone
    /\ fn_out \in NamesOf(fn_in.sectors)

\* membership as the sector tables mean it
Contains(start, end, angle) ==
    IF start > end
    THEN angle >= start \/ angle <= end
    ELSE start <= angle /\ angle <= end

\* C10: a range with start > end contains an angle iff angle >= start or
\* angle <= end (315..45 contains 350, 10 and 0 and not 180), a range with
\* start <= end iff start <= angle <= end; the sector get_current_sector
\* returns is the first of the table that contains the angle.
C10_Wraparound ==
    /\ fn_in.fn = "_is_angle_in_range" =>
          /\ fn_out = Contains(fn_in.start, fn_in.end, fn_in.angle)
          /\ (fn_in.start = 315 /\ fn_in.end = 45 /\ fn_in.angle \in {350, 10, 0})
                => fn_out
          /\ (fn_in.start = 315 /\ fn_in.end = 45 /\ fn_in.angle = 180) => ~fn_out
    /\ (fn_in.fn = "get_current_sector" /\ fn_out # None) =>
          \E i \in 1..Len(fn_in.sectors) :
              /\ fn_in.sectors[i].name = fn_out
              /\ Contains(fn_in.sectors[i].start, fn_in.sectors[i].end, fn_in.angle)
              /\ \A j \in 1..(i - 1) :
                    ~Contains(fn_in.sectors[j].start, fn_in.sectors[j].end,
                              fn_in.angle)

\* 350 degrees in the range 315..45
C10_Witness ==
    /\ fn_in.fn = "_is_angle_in_range"
    /\ fn_in.start = 315
    /\ fn_in.end = 45
    /\ fn_in.angle = 350
    /\ fn_out = TRUE

\* C11: a tick with no input device is skipped: it leaves current_sector,
\* current_state and pressed_keys as they were and issues no key action.
C11_NoDeviceTickSkipped ==
    [][(joystick = None /\ thread_pc = "body" /\ op' = "update") =>
          /\ current_sector' = current_sector
          /\ current_state' = current_state
          /\ pressed_keys' = pressed_keys
          /\ emitted' = << >>]_vars

\* C12: with the dynamic mode enabled and min_factor < max_factor, for a fixed
\* base the deadzone does not increase with the speed above 0.5: for speeds
\* 0.5 < s1 <= s2, deadzone(s2) <= deadzone(s1), both for the value returned
\* and for the exact product base * factor.
C12_DeadzoneMonotone ==
    /\ (fn_in.fn = "get_dynamic_deadzone" /\ fn_in.min_factor < fn_in.max_factor
          /\ fn_in.speed > 50) =>
          \A s2 \in Speeds :
              s2 >= fn_in.speed =>
                  /\ get_dynamic_deadzone(s2, fn_in.base_deadzone, fn_in.min_factor,
                                          fn_in.max_factor) <= fn_out
                  /\ fn_in.base_deadzone
                        * SpeedFactor(s2, fn_in.min_factor, fn_in.max_factor)
                     <= fn_in.base_deadzone
                        * SpeedFactor(fn_in.speed, fn_in.min_factor, fn_in.max_factor)
    /\ (fn_in.fn = "get_effective_deadzone" /\ fn_in.adaptive /\ fn_in.dynamic
          /\ fn_in.min_factor < fn_in.max_factor /\ fn_in.speed > 50) =>
          \A s2 \in Speeds :
              s2 >= fn_in.speed =>
                  get_effective_deadzone_with(TRUE, TRUE, fn_in.combat,
                                              fn_in.game_state, s2, fn_in.min_factor,
                                              fn_in.max_factor) <= fn_out

\* a speed between 0.5 and 2.0 whose deadzone lies strictly between the two ends
C12_Witness ==
    /\ fn_in.fn = "get_effective_deadzone"
    /\ fn_in.adaptive /\ fn_in.dynamic
    /\ fn_in.min_factor < fn_in.max_factor
    /\ fn_in.speed > 50 /\ fn_in.speed < 200
    /\ fn_out < get_effective_deadzone_with(TRUE, TRUE, fn_in.combat, fn_in.game_state,
                                            0, fn_in.min_factor, fn_in.max_factor)
    /\ fn_out > get_effective_deadzone_with(TRUE, TRUE, fn_in.combat, fn_in.game_state,
                                            260, fn_in.min_factor, fn_in.max_factor)

\* C13: with adaptive_enabled false get_effective_deadzone returns DEADZONE and
\* get_transition_smoothness returns TRANSITION_SMOOTHNESS, whatever the combat
\* mode flag, the game state and the movement speed are.
C13_AdaptiveOffStatic ==
    /\ (fn_in.fn = "get_effective_deadzone" /\ ~fn_in.adaptive) => fn_out = DEADZONE
    /\ (fn_in.fn = "get_transition_smoothness" /\ ~fn_in.adaptive) =>
          fn_out = TRANSITION_SMOOTHNESS

\* adaptive off with everything else set to move the deadzone: dynamic mode on,
\* combat mode, combat state, fast movement, min_factor < max_factor
C13_Witness ==
    /\ fn_in.fn = "get_effective_deadzone"
    /\ ~fn_in.adaptive
    /\ fn_in.dynamic /\ fn_in.combat
    /\ fn_in.game_state = "combat"
    /\ fn_in.speed > 200
    /\ fn_in.min_factor < fn_in.max_factor
    /\ fn_out = DEADZONE
    /\ get_effective_deadzone_with(TRUE, TRUE, TRUE, "combat", fn_in.speed,
                                   fn_in.min_factor, fn_in.max_factor) # DEADZONE

\* the last n elements of a sequence
LastOf(q, n) == IF Len(q) <= n THEN q ELSE SubSeq(q, Len(q) - n + 1, Len(q))

\* C14: after every MovementAnalyzer.update, prediction_confidence lies in
\* [0, 1], and it is 0 whenever current_speed <= 0.5 and whenever fewer than
\* two samples have been recorded.
C14_ConfidenceRange ==
    arrivals # << >> =>
        /\ analyzer.prediction_confidence >= 0
        /\ analyzer.prediction_confidence <= 1000
        /\ analyzer.current_speed <= 50 => analyzer.prediction_confidence = 0
        /\ Len(arrivals) < 2 => analyzer.prediction_confidence = 0

\* an update that leaves a speed of exactly 0.5 after one that left a
\* confidence above 0
C14_Witness ==
    /\ Len(arrivals) >= 3
    /\ analyzer.current_speed = 50
    /\ analyzer.prediction_confidence = 0
    /\ arrivals[Len(arrivals)][2] > arrivals[Len(arrivals) - 1][2]
    /\ arrivals[Len(arrivals) - 1][1] # arrivals[Len(arrivals) - 2][1]
    /\ arrivals[Len(arrivals) - 1][2] = arrivals[Len(arrivals) - 2][2] + 1

\* C16: after any sequence of MovementAnalyzer.update calls, position_history
\* and timestamp_history have the same length, at most history_size (15 in the
\* controller), and hold the most recent samples in arrival order.
C16_HistoryIsRecentSamples ==
    /\ Len(analyzer.position_history) = Len(analyzer.timestamp_history)
    /\ Len(analyzer.position_history) <= analyzer.history_size
    /\ Len(analyzer.position_history) = Min(Len(arrivals), analyzer.history_size)
    /\ \A i \in 1..Len(analyzer.position_history) :
          /\ analyzer.position_history[i]
                = LastOf(arrivals, analyzer.history_size)[i][1]
          /\ analyzer.timestamp_history[i]
                = LastOf(arrivals, analyzer.history_size)[i][2]

\* the controller's analyzer after more than 15 updates, the evicted sample
\* differing from the oldest one kept
C16_Witness ==
    /\ analyzer.history_size = CONTROLLER_HISTORY_SIZE
    /\ Len(arrivals) > CONTROLLER_HISTORY_SIZE
    /\ Len(analyzer.position_history) = CONTROLLER_HISTORY_SIZE
    /\ arrivals[1][1] # analyzer.position_history[1]
    /\ analyzer.timestamp_history[1] = arrivals[Len(arrivals) - CONTROLLER_HISTORY_SIZE + 1][2]

\* C15: GameStateDetector.update(keys, now): when a combat key is in keys,
\* last_combat_action_time becomes now and the state is combat; otherwise
\* last_combat_action_time is kept and the state is combat iff
\* now - last_combat_action_time < combat_timeout, exploration if not.
C15_CombatWindow ==
    fn_in.fn = "GameStateDetector.update" =>
        /\ fn_out = detector.current_state
        /\ (fn_in.keys \cap {"up", "down", "left", "right", "middle_mouse"} # {}) =>
              /\ detector.last_combat_action_time = fn_in.now
              /\ detector.current_state = "combat"
        /\ (fn_in.keys \cap {"up", "down", "left", "right", "middle_mouse"} = {}) =>
              /\ detector.last_combat_action_time
                    = fn_in.before.last_combat_action_time
              /\ detector.current_state =
                    IF fn_in.now - fn_in.before.last_combat_action_time < COMBAT_TIMEOUT
                    THEN "combat" ELSE "exploration"

\* the first update at the end of the window: no combat key, the last combat
\* action exactly combat_timeout ago, the state leaving combat
C15_Witness ==
    /\ fn_in.fn = "GameStateDetector.update"
    /\ fn_in.keys \cap {"up", "down", "left", "right", "middle_mouse"} = {}
    /\ fn_in.before.current_state = "combat"
    /\ fn_in.before.last_combat_action_time > StartTime
    /\ fn_in.now - fn_in.before.last_combat_action_time = COMBAT_TIMEOUT
    /\ detector.current_state = "exploration"

\* the calls of key_down and key_up the last get_axes() made for attack keys
IsAttackAct(a) == a.act \in {"key_down", "key_up"} /\ a.key \in AttackKeys

AttackActs == SelectSeq(axes_emitted, IsAttackAct)

\* C17: after an attack has been fired on the release of the modifier,
\* MouseAxes stays in Cooldown until post_attack_cooldown_ms has elapsed: a
\* call that reads a time before the end of the window leaves the state
\* Cooldown and fires no attack, whichever modifiers are held.
C17_CooldownHolds ==
    (fn_in.fn = "get_axes" /\ fn_in.now_ms < fn_in.before.cooldown_until_ts) =>
        /\ mouse_axes.state = STATE_COOLDOWN
        /\ AttackActs = << >>

\* C18: a release of the aim modifier while Aiming with a remembered sector
\* issues key_down and then key_up of that sector's key, once each, and enters
\* Cooldown; a release from Idle or Cooldown fires nothing; no call ends with
\* an attack key down.
C18_ReleaseFiresOnce ==
    fn_in.fn = "get_axes" =>
        /\ (fn_in.before.prev_mod_pressed /\ "alt" \notin fn_in.held
              /\ fn_in.before.state = STATE_AIMING
              /\ fn_in.before.last_sector # None
              /\ fn_in.now_ms - fn_in.before.last_sector_ts <= AIM_DIRECTION_MEMORY_MS) =>
              /\ AttackActs = << Act("key_down", KEY_MAPPINGS[fn_in.before.last_sector], TRUE),
                                 Act("key_up", KEY_MAPPINGS[fn_in.before.last_sector], TRUE) >>
              /\ mouse_axes.state = STATE_COOLDOWN
        /\ (fn_in.before.prev_mod_pressed /\ "alt" \notin fn_in.held
              /\ fn_in.before.state # STATE_AIMING) => AttackActs = << >>
        /\ AttackActs # << >> =>
              /\ Len(AttackActs) = 2
              /\ AttackActs[1].act = "key_down" /\ AttackActs[2].act = "key_up"
              /\ AttackActs[1].key = AttackActs[2].key

\* the number of presses among the button events
Presses == Cardinality({ i \in 1..Len(button_events) : button_events[i] })

\* C19: with auto_lmb enabled the synthetic LMB events alternate down, up,
\* down, ..., starting with down; in hold mode a press emits LMB down and the
\* release that follows it emits LMB up; _owns_lmb equals aiming after every
\* call, so no up is emitted without its down.
C19_LmbAlternates ==
    aim_engine.cfg.auto_lmb =>
        /\ \A i \in 1..Len(lmb_events) :
              lmb_events[i] = << "LMB", IF i % 2 = 1 THEN "down" ELSE "up" >>
        /\ aim_engine._owns_lmb = aim_engine.aiming
        /\ aim_engine._owns_lmb = (Len(lmb_events) % 2 = 1)
        /\ (aim_engine.enabled /\ aim_engine.cfg.mode = "hold" /\ button_events # << >>) =>
              /\ (button_events[Len(button_events)] /\ (Len(button_events) = 1 \/ ~button_events[Len(button_events) - 1]))
                    => aim_engine.out = << <<"LMB", "down">> >>
              /\ (~button_events[Len(button_events)] /\ Len(button_events) > 1 /\ button_events[Len(button_events) - 1])
                    => aim_engine.out = << <<"LMB", "up">> >>

\* hold mode: press, press again, release, press: down, up, down
C19_Witness ==
    /\ aim_engine.cfg.auto_lmb /\ aim_engine.enabled
    /\ aim_engine.cfg.mode = "hold"
    /\ button_events = << TRUE, TRUE, FALSE, TRUE >>
    /\ lmb_events = << <<"LMB", "down">>, <<"LMB", "up">>, <<"LMB", "down">> >>

\* C20: the aiming flag of an enabled AimEngine: in toggle mode it is false at
\* first, flips on every press and is left alone by releases, so it is the
\* parity of the presses; in hold mode it is the pressed value of the last
\* button event.
C20_AimingFromHistory ==
    aim_engine.enabled =>
        /\ button_events = << >> => ~aim_engine.aiming
        /\ aim_engine.cfg.mode = "toggle" => aim_engine.aiming = (Presses % 2 = 1)
        /\ (aim_engine.cfg.mode = "hold" /\ button_events # << >>) =>
              aim_engine.aiming = button_events[Len(button_events)]

\* toggle mode: press, release, press, release, press: aiming after three presses
C20_Witness ==
    /\ aim_engine.enabled
    /\ aim_engine.cfg.mode = "toggle"
    /\ button_events = << TRUE, FALSE, TRUE, FALSE, TRUE >>
    /\ aim_engine.aiming

\* C22: AimConfig.from_dict({}) yields the defaults scale = 0.1, mode =
\* "hold", enabled = True and button = "mouse4".
C22_Defaults ==
    (fn_in.fn = "from_dict" /\ DOMAIN fn_in.data = {}) =>
        /\ fn_out.scale = 1
        /\ fn_out.mode = "hold"
        /\ fn_out.enabled = TRUE
        /\ fn_out.button = "mouse4"

\* C23: AimConfig.from_dict normalises the button aliases: "mouse_back" and
\* "back" both yield button = "mouse4".
C23_ButtonAliases ==
    (fn_in.fn = "from_dict" /\ "button" \in DOMAIN fn_in.data) =>
        (fn_in.data["button"] \in {"mouse_back", "back"} => fn_out.button = "mouse4")

RECURSIVE SumAiming(_, _, _)
\* the sum of a field over the first n scale_move calls made while aiming
SumAiming(log, field, n) ==
    IF n = 0 THEN 0
    ELSE SumAiming(log, field, n - 1) + (IF log[n].aiming THEN log[n][field] ELSE 0)

\* C21: while aiming with smoothing off and min_step <= 1, scale_move carries
\* the fractional remainder between calls: on each axis the steps emitted so
\* far plus the stored remainder equal the scale times the sum of the deltas
\* given, and the remainder stays below 1 in magnitude (in tenths here).
C21_RemainderCarried ==
    (aim_engine.cfg.smoothing.type = "off" /\ aim_engine.cfg.min_step <= 1) =>
        /\ 10 * SumAiming(moves, "fx", Len(moves)) + aim_engine._rem_x
              = ScaleOf(aim_engine.cfg.scale_x, aim_engine.cfg.scale)
                    * SumAiming(moves, "dx", Len(moves))
        /\ 10 * SumAiming(moves, "fy", Len(moves)) + aim_engine._rem_y
              = ScaleOf(aim_engine.cfg.scale_y, aim_engine.cfg.scale)
                    * SumAiming(moves, "dy", Len(moves))
        /\ aim_engine._rem_x > -10 /\ aim_engine._rem_x < 10
        /\ aim_engine._rem_y > -10 /\ aim_engine._rem_y < 10

\* the test's case: scale 0.5, aiming, the deltas 10, 1, 1 give 5, 0, 1
C21_Witness ==
    /\ aim_engine.cfg.smoothing.type = "off" /\ aim_engine.cfg.min_step = 1
    /\ aim_engine.cfg.scale = 5 /\ aim_engine.cfg.scale_y = NoScale
    /\ Len(moves) = 3
    /\ \A i \in 1..3 : moves[i].aiming
    /\ << moves[1].dx, moves[2].dx, moves[3].dx >> = << 10, 1, 1 >>
    /\ << moves[1].fx, moves[2].fx, moves[3].fx >> = << 5, 0, 1 >>
    /\ moves[1].fy = -5

\* C24: a tick of the standard mode that finds the controller neutral (no key
\* held, current_sector None) and classifies a sector s issues press(key(s))
\* and no other key action, and ends in sector s, in the attack state, with
\* key(s) held; also when last_active_sector still names another sector.
C24_NeutralPressOnly ==
    [][(/\ thread_pc = "body"
        /\ pressed_keys = {}
        /\ current_sector = None
        /\ ~alt_mode_key_pressed
        /\ op' = "update"
        /\ outcome' = "processed"
        /\ current_sector' # None) =>
           /\ SelectSeq(emitted', IsKeyAct)
                 = << Act("press", KEY_MAPPINGS[current_sector'], TRUE) >>
           /\ pressed_keys' = {KEY_MAPPINGS[current_sector']}
           /\ current_state' = "attack"]_vars

\* the position in the tick's key actions of the first one equal to a, or 0
FirstAt(acts, a) ==
    IF \E i \in 1..Len(acts) : acts[i] = a
    THEN CHOOSE i \in 1..Len(acts) : acts[i] = a /\ \A j \in 1..(i - 1) : acts[j] # a
    ELSE 0

\* C25: a tick of the standard mode that leaves the deadzone into a sector b
\* other than last_active_sector a runs one sector-change sequence a -> b in
\* that tick, on the batch path when the movement through the deadzone was
\* quick and on the delayed path (_enqueue_sector_change, which gives the
\* change up when it finds the stick back inside the deadzone) otherwise, and
\* presses key(b) only after the release of key(a) when key(a) was held.
C25_ExitRunsSequence ==
    [][(/\ thread_pc = "body"
        /\ in_deadzone
        /\ last_active_sector # None
        /\ ~alt_mode_key_pressed
        /\ op' = "update"
        /\ outcome' = "processed"
        /\ ~in_deadzone'
        /\ current_sector' \notin {None, last_active_sector}) =>
           /\ seq'.count = 1
           /\ seq'.from = last_active_sector
           /\ seq'.to = current_sector'
           /\ seq'.path \in IF deadzone_speed' > DEADZONE_SPEED_THRESHOLD
                             THEN {"batch"} ELSE {"delayed", "cancelled"}
           /\ (/\ KEY_MAPPINGS[last_active_sector] \in pressed_keys
               /\ FirstAt(emitted', Act("press", KEY_MAPPINGS[current_sector'], TRUE)) > 0) =>
                 /\ FirstAt(emitted', Act("release", KEY_MAPPINGS[last_active_sector], TRUE)) > 0
                 /\ FirstAt(emitted', Act("release", KEY_MAPPINGS[last_active_sector], TRUE))
                       < FirstAt(emitted', Act("press", KEY_MAPPINGS[current_sector'], TRUE))]_vars

\* C26: after every tick that finds the input inside the deadzone
\* DEADZONE_TIME_THRESHOLD or longer after it entered, in the standard or the
\* alternative mode, no key is held, current_sector is None and current_state
\* is neutral.
C26_DeadzoneReleases ==
    (/\ op = "update"
     /\ in_deadzone
     /\ last_update_time - deadzone_entry_time >= DEADZONE_TIME_THRESHOLD) =>
        /\ pressed_keys = {}
        /\ current_sector = None
        /\ current_state = "neutral"

\* C27: every call of update() gives the sample it read to the movement
\* analyzer once and calls the game state detector once: the analyzer has
\* received one more sample, the one the tick read, and a detector called with
\* an attack key held reports combat.
C27_TickFeedsComponents ==
    [][(thread_pc = "body" /\ op' = "update") =>
           /\ Len(arrivals') = Len(arrivals) + 1
           /\ arrivals'[Len(arrivals')][1] = last_position'
           /\ pressed_keys \cap AttackKeys # {} => detector'.current_state = "combat"]_vars

\* the sequence issued the step of the given rank
Attempted(r) == \E i \in 1..Len(SeqActs) : Rank(SeqActs[i]) = r

\* the key actions of the last update(), sleeps left out
KeyActs == SelectSeq(emitted, IsKeyAct)

\* a key action of the sequence reported failure
SeqFailed == \E i \in 1..Len(SeqActs) : ~SeqActs[i].ok

\* the sequence pressed the cancel key, and the press succeeded
CancelDown == \E i \in 1..Len(SeqActs) : Rank(SeqActs[i]) = 1 /\ SeqActs[i].ok

\* no key action was issued twice in the tick
NoRepeat ==
    \A i, j \in 1..Len(KeyActs) :
        i < j => ~(KeyActs[i].act = KeyActs[j].act /\ KeyActs[i].key = KeyActs[j].key)

\* C28: when a key action of a sector-change sequence a -> b reports failure,
\* on the delayed or the batch path, the steps that remain are still issued
\* (the release of key(a) when it was held, the release of the cancel key when
\* its press succeeded, the press of key(b) unless it was held already), and
\* no key action is issued twice in the tick.
C28_ContinuesAfterFailure ==
    [][(/\ thread_pc = "body"
        /\ op' = "update"
        /\ seq'.path \in {"delayed", "batch"}
        /\ SeqFailed') =>
           /\ seq'.held => Attempted(2)'
           /\ CancelDown' => Attempted(3)'
           /\ KEY_MAPPINGS[seq'.to] \notin pressed_keys => Attempted(4)'
           /\ NoRepeat']_vars

\* C29: after a tick that ran a sector-change sequence or a release-all, no
\* key whose release the tick issued (and did not press again afterwards) is
\* still in pressed_keys, whether the release reported success or not.
C29_ReleasedNotHeld ==
    op = "update" =>
        \A i \in 1..Len(emitted) :
            (/\ emitted[i].act = "release"
             /\ \A j \in (i + 1)..Len(emitted) :
                   ~(emitted[j].act = "press" /\ emitted[j].key = emitted[i].key)) =>
                emitted[i].key \notin pressed_keys

\* the entries of a table whose range contains the angle
Containing(sectors, angle) ==
    { i \in 1..Len(sectors) : Contains(sectors[i].start, sectors[i].end, angle) }

C31_CombatOverridesBase ==
    (/\ fn_in.fn = "get_effective_deadzone"
     /\ fn_in.adaptive
     /\ fn_in.game_state = "combat") =>
        fn_out = IF fn_in.dynamic
                 THEN get_dynamic_deadzone(fn_in.speed, COMBAT_MODE_DEADZONE,
                                           fn_in.min_factor, fn_in.max_factor)
                 ELSE COMBAT_MODE_DEADZONE

\* the base value of a call of one of the analyzer's two adjusting methods
BaseOf(call) ==
    IF call.fn = "get_dynamic_deadzone" THEN call.base_deadzone
    ELSE call.base_smoothness

\* the difference of two numbers
Gap(x, y) == IF x >= y THEN x - y ELSE y - x

\* C32: get_dynamic_deadzone and get_transition_smoothness multiply their base
\* by the same factor: max_factor for a speed below 0.5, min_factor for a
\* speed above 2.0 and max_factor - (speed - 0.5) / 1.5 * (max_factor -
\* min_factor) in between.  For min_factor <= max_factor the factor lies in
\* [min_factor, max_factor], and between two speeds it changes by no more than
\* the slope (max_factor - min_factor) / 1.5 times their distance: there is no
\* jump at 0.5 nor at 2.0.  (Factors are held times 150.)
C32_SameFactorPolicy ==
    (fn_in.fn \in {"get_dynamic_deadzone", "analyzer.get_transition_smoothness"}) =>
        /\ fn_out =
              (BaseOf(fn_in)
                 * (IF fn_in.speed < 50 THEN 150 * fn_in.max_factor
                    ELSE IF fn_in.speed > 200 THEN 150 * fn_in.min_factor
                    ELSE 150 * fn_in.max_factor
                           - (fn_in.speed - 50) * (fn_in.max_factor - fn_in.min_factor)))
              \div 1500
        /\ fn_in.min_factor <= fn_in.max_factor =>
              /\ fn_out >= (BaseOf(fn_in) * fn_in.min_factor) \div 10
              /\ fn_out <= (BaseOf(fn_in) * fn_in.max_factor) \div 10
              /\ \A s2 \in Speeds :
                    /\ Gap(fn_out * 1500,
                           BaseOf(fn_in)
                             * SpeedFactor(s2, fn_in.min_factor, fn_in.max_factor))
                          < BaseOf(fn_in) * Gap(s2, fn_in.speed)
                               * (fn_in.max_factor - fn_in.min_factor) + 1500
                    /\ Gap(SpeedFactor(fn_in.speed, fn_in.min_factor, fn_in.max_factor),
                           SpeedFactor(s2, fn_in.min_factor, fn_in.max_factor))
                          <= Gap(s2, fn_in.speed) * (fn_in.max_factor - fn_in.min_factor)

\* get_transition_smoothness at speed 0.5 or 2.0, an end of the interpolation,
\* with min_factor < max_factor: the value is the one of the flat part next to it
C32_Witness ==
    /\ fn_in.fn = "analyzer.get_transition_smoothness"
    /\ fn_in.min_factor < fn_in.max_factor
    /\ \/ /\ fn_in.speed = 50
          /\ fn_out = analyzer_get_transition_smoothness(
                          49, fn_in.base_smoothness, fn_in.min_factor, fn_in.max_factor)
       \/ /\ fn_in.speed = 200
          /\ fn_out = analyzer_get_transition_smoothness(
                          201, fn_in.base_smoothness, fn_in.min_factor, fn_in.max_factor)
    /\ analyzer_get_transition_smoothness(
           0, fn_in.base_smoothness, fn_in.min_factor, fn_in.max_factor)
         > analyzer_get_transition_smoothness(
               260, fn_in.base_smoothness, fn_in.min_factor, fn_in.max_factor)

\* C33: the predicted sector MovementAnalyzer hands out is None whenever the
\* prediction confidence is below 0.3 or the predicted position lies inside
\* the deadzone: the value predict_next_sector returns, for the deadzone it
\* was given, and the predicted_sector entry of the metrics update returns,
\* for a position that is inside both base deadzones.  A sector found on an
\* earlier tick is not handed out again.
C33_NoStalePrediction ==
    /\ (/\ fn_in.fn = "predict_next_sector"
        /\ \/ analyzer.predicted_position = None
           \/ analyzer.prediction_confidence < 300
           \/ DistanceOf(analyzer.predicted_position) < fn_in.deadzone)
          => fn_out = None
    /\ (/\ fn_in.fn = "update"
        /\ \/ fn_out.predicted_position = None
           \/ fn_out.prediction_confidence < 300
           \/ \A d \in BaseDeadzones : DistanceOf(fn_out.predicted_position) < d)
          => fn_out.predicted_sector = None

\* C34: a remembered aim sector is honoured only inside the direction-memory
\* window: a call of get_axes that sees the aim modifier released more than
\* aim_direction_memory_ms after the sector was last classified fires no
\* attack, whatever aim_requires_movement is.
C34_MemoryWindow ==
    (/\ fn_in.fn = "get_axes"
     /\ fn_in.before.prev_mod_pressed
     /\ fn_in.before.aim_modifier \notin fn_in.held
     /\ fn_in.before.last_sector # None
     /\ fn_in.now_ms - fn_in.before.last_sector_ts
          > fn_in.before.aim_direction_memory_ms) =>
        AttackActs = << >>

\* C35: at the end of every tick that leaves the alternative mode inactive and
\* in which every key action succeeded, current_state = "attack" with
\* current_sector = s means that key(s) is held; ticks on which the cancel
\* button was pressed and ticks on which _enqueue_sector_change gave the
\* change up are included.
C35_AttackKeyHeld ==
    (/\ op = "update"
     /\ ~alt_mode_active
     /\ \A i \in 1..Len(emitted) : emitted[i].ok
     /\ current_state = "attack"
     /\ current_sector # None) =>
        KEY_MAPPINGS[current_sector] \in pressed_keys

\* C36: within one tick a single effective deadzone is used everywhere, so
\* that (the sectors covering the circle) a tick of the standard mode ends
\* with in_deadzone true iff the sector get_current_sector gives for the
\* tick's sample is None.
C36_OneDeadzone ==
    (op = "update" /\ outcome = "processed") =>
        (in_deadzone <=>
            get_current_sector(SECTORS, AngleOf(last_position), DistanceOf(last_position),
                               EffectiveDeadzone) = None)

\* C37: while the alternative mode is active no sector attack key is pressed:
\* every tick that ends with alt_mode_active true has issued no press of an
\* attack key and leaves pressed_keys without attack keys, the tick that
\* activates the mode and the ticks on which the stick leaves the deadzone
\* into a new sector included.
C37_AltModeNoAttackKey ==
    (op = "update" /\ alt_mode_active) =>
        /\ pressed_keys \cap AttackKeys = {}
        /\ \A i \in 1..Len(emitted) :
              ~(emitted[i].act = "press" /\ emitted[i].key \in AttackKeys)

\* a tick of the alternative mode on which the stick left the deadzone into a
\* sector other than last_active_sector and _enqueue_sector_change ran
C37_Witness ==
    /\ op = "update"
    /\ alt_mode_active
    /\ outcome = "alt"
    /\ ~in_deadzone
    /\ seq.count = 1
    /\ seq.path = "delayed"
    /\ seq.to # seq.from
    /\ pressed_keys \cap AttackKeys = {}

\* C38: with block_while_held the block key is held only while the aim
\* modifier is held: every call of get_axes that finds the aim modifier up
\* ends with block_pressed false, also when it finds another modifier down.
C38_BlockOnlyWhileHeld ==
    (/\ fn_in.fn = "get_axes"
     /\ mouse_axes.block_while_held
     /\ mouse_axes.aim_modifier \notin fn_in.held) =>
        ~mouse_axes.block_pressed

-----------------------------------------------------------------------------
\* send_sector_change of win_input.py with both of its branches.  fn_in holds
\* the call: its arguments, INTERCEPTION_AVAILABLE, whether the globals
\* keyboard and mouse are set, the branch every frame of the call has taken so
\* far, and where the call stands; emitted holds the input calls issued.

\* frames the interpreter allows on the stack before it raises RecursionError
RecursionLimit == 3

\* the input calls of one frame, the Windows API ones (lines 678-726) and the
\* Interception ones (lines 735-755) alike
SectorChangeSteps(call) ==
    << Act("press", call.cancel_key, TRUE),
       Act("sleep", "10ms", TRUE),
       Act("release", call.old_attack_key, TRUE),
       Act("release", call.cancel_key, TRUE),
       Act("sleep", "10ms", TRUE),
       Act("press", call.new_attack_key, TRUE) >>

\* the input calls a frame issues when its r-th one fails (r = 0: none does)
FrameActs(call, r) ==
    RunSteps([Self EXCEPT !.n = 0, !.fails = {r} \ {0}, !.emitted = emitted],
             SectorChangeSteps(call), 1).emitted

\* "return send_sector_change(cancel_key, old_attack_key, new_attack_key,
\* release_delay)" at lines 733 and 763: a new frame with the same arguments
\* and the same INTERCEPTION_AVAILABLE, or RecursionError when the stack is
\* full; the call is made outside every try block, so the error leaves the
\* function
Recurse(call) ==
    IF Len(call.frames) + 1 >= RecursionLimit
    THEN [call EXCEPT !.frames = Append(@, "interception"), !.pc = "raised"]
    ELSE [call EXCEPT !.frames = Append(@, "interception")]

\* a caller calls send_sector_change
SectorChangeCall ==
    /\ fn_in = NoCall
    /\ \E old_key \in AttackKeys, new_key \in AttackKeys, available \in BOOLEAN,
          devices \in BOOLEAN :
          /\ new_key # old_key
          /\ fn_in' = [fn |-> "send_sector_change",
                       cancel_key |-> KEY_MAPPINGS.cancel,
                       old_attack_key |-> old_key, new_attack_key |-> new_key,
                       available |-> available, devices |-> available /\ devices,
                       frames |-> << >>, pc |-> "call"]
    /\ emitted' = << >>
    /\ UNCHANGED << others, current_sector, current_state, pressed_keys,
                    sector_change_in_progress, last_sector_change_time, last_position,
                    last_position_time, last_update_time, in_deadzone,
                    deadzone_entry_time, deadzone_speed, last_active_sector,
                    alt_mode_active, alt_mode_key_pressed, alt_mode_current_sector,
                    alt_mode_right_mouse_down, dynamic_deadzone_enabled, running,
                    thread, dyn_max_factor, thread_pc, stop_pc, op, outcome,
                    seq, pre, fn_out >>

\* lines 678-726: the frame that finds INTERCEPTION_AVAILABLE false returns
\* False at the first input call that fails and True after the last one
WindowsApiFrame ==
    /\ fn_in.fn = "send_sector_change" /\ fn_in.pc = "call"
    /\ ~fn_in.available
    /\ \E r \in 0..4 :
          /\ emitted' = FrameActs(fn_in, r)
          /\ fn_out' = (r = 0)
    /\ fn_in' = [fn_in EXCEPT !.frames = Append(@, "windows"), !.pc = "returned"]
    /\ UNCHANGED << others, current_sector, current_state, pressed_keys,
                    sector_change_in_progress, last_sector_change_time, last_position,
                    last_position_time, last_update_time, in_deadzone,
                    deadzone_entry_time, deadzone_speed, last_active_sector,
                    alt_mode_active, alt_mode_key_pressed, alt_mode_current_sector,
                    alt_mode_right_mouse_down, dynamic_deadzone_enabled, running,
                    thread, dyn_max_factor, thread_pc, stop_pc, op, outcome,
                    seq, pre >>

\* lines 730-733: keyboard or mouse is not set and initialize() returns False
InitializeFails ==
    /\ fn_in.fn = "send_sector_change" /\ fn_in.pc = "call"
    /\ fn_in.available /\ ~fn_in.devices
    /\ fn_in' = Recurse(fn_in)
    /\ UNCHANGED << others, current_sector, current_state, pressed_keys,
                    sector_change_in_progress, last_sector_change_time, last_position,
                    last_position_time, last_update_time, in_deadzone,
                    deadzone_entry_time, deadzone_speed, last_active_sector,
                    alt_mode_active, alt_mode_key_pressed, alt_mode_current_sector,
                    alt_mode_right_mouse_down, dynamic_deadzone_enabled, running,
                    thread, dyn_max_factor, thread_pc, stop_pc, op, emitted, outcome,
                    seq, pre, fn_out >>

\* lines 730-763: the devices are set, or initialize() sets them; the frame
\* returns True after its last input call, and calls send_sector_change again
\* when one of them raises
InterceptionFrame ==
    /\ fn_in.fn = "send_sector_change" /\ fn_in.pc = "call"
    /\ fn_in.available
    /\ \E r \in 0..4 :
          /\ emitted' = FrameActs(fn_in, r)
          /\ fn_in' = IF r = 0
                      THEN [fn_in EXCEPT !.devices = TRUE,
                                         !.frames = Append(@, "interception"),
                                         !.pc = "returned"]
                      ELSE Recurse([fn_in EXCEPT !.devices = TRUE])
          /\ fn_out' = IF r = 0 THEN TRUE ELSE fn_out
    /\ UNCHANGED << others, current_sector, current_state, pressed_keys,
                    sector_change_in_progress, last_sector_change_time, last_position,
                    last_position_time, last_update_time, in_deadzone,
                    deadzone_entry_time, deadzone_speed, last_active_sector,
                    alt_mode_active, alt_mode_key_pressed, alt_mode_current_sector,
                    alt_mode_right_mouse_down, dynamic_deadzone_enabled, running,
                    thread, dyn_max_factor, thread_pc, stop_pc, op, outcome,
                    seq, pre >>

NextSectorChange ==
    \/ SectorChangeCall
    \/ WindowsApiFrame
    \/ InitializeFails
    \/ InterceptionFrame

SpecSectorChange == InitStop /\ [][NextSectorChange]_vars

\* C39: send_sector_change ends by returning a boolean, and when the
\* Interception backend raises or cannot be initialised it falls back to the
\* Windows API sequence once: the frame it calls takes the Windows API branch
\* and no frame enters the Interception branch after one has failed there.
C39_FallsBackOnce ==
    fn_in.fn = "send_sector_change" =>
        /\ fn_in.pc # "raised"
        /\ fn_in.pc = "returned" => fn_out \in BOOLEAN
        /\ Len(fn_in.frames) <= 2
        /\ \A i \in 2..Len(fn_in.frames) : fn_in.frames[i] = "windows"

-----------------------------------------------------------------------------
\* GameStateDetector fed by a clock that starts near zero, as a monotonic
\* clock does

\* the clock value before the first update
EarlyClock == 0

DetectorNowEarly == IF fn_in.fn = "GameStateDetector.update" THEN fn_in.now ELSE EarlyClock

DetectorUpdateEarly ==
    \E keys \in DetectorKeys, dt \in DetectorSteps :
        /\ DetectorNowEarly + dt <= EarlyClock + MaxDetectorTime
        /\ detector' = detector_update(detector, keys, DetectorNowEarly + dt)
        /\ fn_in' = [fn |-> "GameStateDetector.update", keys |-> keys,
                     now |-> DetectorNowEarly + dt, before |-> detector]
        /\ fn_out' = detector'.current_state
        /\ UNCHANGED << joystick, analyzer, arrivals, mouse_axes, axes_clock,
                        axes_emitted, aim_engine, button_events, lmb_events, moves,
                    current_sector, current_state, pressed_keys,
                    sector_change_in_progress, last_sector_change_time, last_position,
                    last_position_time, last_update_time, in_deadzone,
                    deadzone_entry_time, deadzone_speed, last_active_sector,
                    alt_mode_active, alt_mode_key_pressed, alt_mode_current_sector,
                    alt_mode_right_mouse_down, dynamic_deadzone_enabled, running,
                    thread, dyn_max_factor, thread_pc, stop_pc, op, emitted, outcome,
                    seq, pre >>

NextDetectorEarly == DetectorUpdateEarly

SpecDetectorEarly == InitStop /\ [][NextDetectorEarly]_vars

\* the times at which the detector recorded a combat key
CombatTimes == { detector.combat_action_history[i][2] : i \in 1..Len(detector.combat_action_history) }

\* C40: GameStateDetector reports combat only if a combat key was active in an
\* update less than combat_timeout seconds before: a detector that has never
\* seen a combat key reports exploration at every update, whatever clock value
\* it is given, values below combat_timeout included.
C40_CombatNeedsCombatKey ==
    (fn_in.fn = "GameStateDetector.update" /\ fn_out = "combat") =>
        \E t \in CombatTimes : fn_in.now - t < detector.combat_timeout

====
